---- MODULE Spec2Model ----
(***************************************************************************)
(* The backend of the Conduit blogging platform (backend/src/api.rs,       *)
(* auth.rs, error.rs) as a state machine.  The state is the relational     *)
(* store (users, follows, articles, tags, article_tags, comments,          *)
(* article_favs) and the last request with its response.  Each handler of  *)
(* the router is one action; every handler is written as a result          *)
(* operator (what the handler answers and what it writes, as a function of *)
(* the store and the request) that the action applies.                     *)
(*                                                                         *)
(* Text that the code inspects character by character (usernames, emails,  *)
(* passwords, titles, slugs) is a tuple of one-character strings.          *)
(* Option<T> is None == << >> or Some(x) == <<x>>.                         *)
(***************************************************************************)
EXTENDS Integers, Sequences, FiniteSets, Bags, TLC

VARIABLES
    users,          \* table users: sequence of rows, users[i].id = i
    follows,        \* table follows: bag of rows <<follower_id, followee_id>>
    articles,       \* table articles: set of rows
    tags,           \* table tags: sequence of names, tag id = index
    article_tags,   \* table article_tags: set of <<article_id, tag_id>>
    comments,       \* table comments: set of rows
    article_favs,   \* table article_favs: set of <<article_id, user_id>>
    serial,         \* the SERIAL counters and the clock behind created_at
    req,            \* the request answered last
    resp,           \* the response to it
    inflight,       \* bag of the requests between two of their statements
    held            \* the tokens clients were given, each with the username it was issued for

store == <<users, follows, articles, tags, article_tags, comments, article_favs, serial>>
vars == <<users, follows, articles, tags, article_tags, comments, article_favs, serial, req, resp,
          inflight, held>>

---------------------------------------------------------------------------
(* Bounds of the model *)

MaxUsers == 2
MaxArticles == 2
MaxComments == 1

---------------------------------------------------------------------------
(* Option<T> *)

None == << >>
Some(x) == <<x>>
IsSome(o) == o # None
UnwrapOr(o, d) == IF o = None THEN d ELSE o[1]

\* SQL COALESCE($n, column)
COALESCE(o, column) == UnwrapOr(o, column)

Range(s) == {s[i] : i \in DOMAIN s}

---------------------------------------------------------------------------
(* error.rs: AppError and its conversion into a response *)

ValidationError(errs) == [kind |-> "ValidationError", detail |-> errs]
JwtError(msg) == [kind |-> "JwtError", detail |-> msg]
ForbiddenError(json) == [kind |-> "ForbiddenError", detail |-> json]
SqlxError(msg) == [kind |-> "SqlxError", detail |-> msg]

UNPROCESSABLE_ENTITY == 422
UNAUTHORIZED == 401
FORBIDDEN == 403
INTERNAL_SERVER_ERROR == 500
OK == 200

StatusOf(err) ==
    CASE err.kind = "ValidationError" -> UNPROCESSABLE_ENTITY
      [] err.kind = "AuthenticationError" -> UNAUTHORIZED
      [] err.kind = "JwtError" -> UNAUTHORIZED
      [] err.kind = "ForbiddenError" -> FORBIDDEN
      [] err.kind = "SqlxError" -> INTERNAL_SERVER_ERROR
      [] err.kind = "Anyhow" -> INTERNAL_SERVER_ERROR

\* impl IntoResponse for AppError: (status, Json({"error": ...})).
\* stmts counts the statements the handler issued to the store before it
\* answered (it is not part of the wire response).
into_response(err, stmts) ==
    [status |-> StatusOf(err), body |-> [error |-> err.detail], stmts |-> stmts]

\* Ok(Json(body))
Success(body, stmts) == [status |-> OK, body |-> body, stmts |-> stmts]

\* sqlx errors as the driver words them
RowNotFound == SqlxError("no rows returned by a query that expected to return at least one row")
UniqueViolation(constraint) == SqlxError(<<"duplicate key value violates unique constraint", constraint>>)
NotNullViolation(column) == SqlxError(<<"null value violates not-null constraint", column>>)
ForeignKeyViolation(constraint) == SqlxError(<<"violates foreign key constraint", constraint>>)

---------------------------------------------------------------------------
(* auth.rs: tokens *)

\* A presented token: the user id it carries and what verification finds at
\* the time of the request.  cond is "ok", "expired", "badsig" or "malformed";
\* NoToken stands for a request without an Authorization header.
Token(user_id, cond) == [user_id |-> user_id, cond |-> cond]
NoToken == Token(0, "absent")
Malformed == Token(0, "malformed")

\* generate_jwt: a token signed by the process key, carrying user_id
generate_jwt(user_id) == Token(user_id, "ok")

\* verify_jwt: the claims, or the library's error; the error's text names the
\* failure (to_string of the library error)
verify_jwt(token) ==
    CASE token.cond = "ok" -> [ok |-> TRUE, user_id |-> token.user_id]
      [] token.cond = "expired" -> [ok |-> FALSE, err |-> JwtError("ExpiredSignature")]
      [] token.cond = "badsig" -> [ok |-> FALSE, err |-> JwtError("InvalidSignature")]
      [] OTHER -> [ok |-> FALSE, err |-> JwtError("InvalidToken")]

\* verify_token: claim.user_id
verify_token(token) == verify_jwt(token)

---------------------------------------------------------------------------
(* validator rules of the request structs *)

ControlChars == {"\t", "\n"}

non_control_character(s) == \A i \in DOMAIN s : s[i] \notin ControlChars

\* validator's email rule: a non-empty user part, one "@", a non-empty domain
\* part, no blanks
email(s) ==
    /\ Len(s) > 0
    /\ Cardinality({i \in DOMAIN s : s[i] = "@"}) = 1
    /\ s[1] # "@"
    /\ s[Len(s)] # "@"
    /\ \A i \in DOMAIN s : s[i] \notin ControlChars \cup {" "}

MinUserName == 1
MaxUserName == 64
MaxEmail == 64
MinPassword == 8
MaxPassword == 64
MinBlank == 1

\* one rule of a #[validate(...)] attribute: the error it adds when broken
Rule(holds, field, message) == IF holds THEN {} ELSE {<<field, message>>}

\* RegistrationUser::validate: the set of <<field, message>> errors
RegistrationUser_validate(user) ==
    Rule(non_control_character(user.username), "username", "user name can't contain non-ascii charactors")
    \cup Rule(Len(user.username) >= MinUserName, "username", "user name can't be blank")
    \cup Rule(Len(user.username) <= MaxUserName, "username", "too long user name")
    \cup Rule(Len(user.email) >= MinBlank, "email", "email can't be blank")
    \cup Rule(Len(user.email) <= MaxEmail, "email", "too long email address")
    \cup Rule(email(user.email), "email", "invalid email address")
    \cup Rule(non_control_character(user.password), "password", "password can't contain non-ascii charactors")
    \cup Rule(Len(user.password) >= MinPassword, "password", "password must be at least 8 characters long")
    \cup Rule(Len(user.password) <= MaxPassword, "password", "too long password")

\* LoginUser::validate
LoginUser_validate(user) ==
    Rule(Len(user.email) >= MinBlank, "email", "email can't be blank")
    \cup Rule(email(user.email), "email", "invalid email address")
    \cup Rule(Len(user.password) >= MinBlank, "password", "password can't be blank")

\* UpdateUserData::validate as its attributes declare it (an absent field
\* passes)
UpdateUserData_validate(data) ==
    Rule(data.email = None \/ email(data.email[1]), "email", "email")
    \cup Rule(data.username = None \/ non_control_character(data.username[1]), "username", "non_control_character")
    \cup Rule(data.username = None \/ (Len(data.username[1]) >= MinUserName /\ Len(data.username[1]) <= MaxUserName), "username", "length")
    \cup Rule(data.password = None \/ non_control_character(data.password[1]), "password", "non_control_character")
    \cup Rule(data.password = None \/ (Len(data.password[1]) >= MinPassword /\ Len(data.password[1]) <= MaxPassword), "password", "length")

---------------------------------------------------------------------------
(* password hashing *)

\* Argon2 as a one-way function of the password and the salt
Argon2(password, salt) == <<"argon2", salt, password>>

\* hash_password: the PHC string, which carries the salt beside the digest
hash_password(password, salt) == [salt |-> salt, digest |-> Argon2(password, salt)]

\* PasswordHash::verify_password
verify_password(hash, password) == Argon2(password, hash.salt) = hash.digest

---------------------------------------------------------------------------
(* The store as one value: what a handler reads and what it leaves behind *)

DB ==
    [users |-> users, follows |-> follows, articles |-> articles, tags |-> tags,
     article_tags |-> article_tags, comments |-> comments,
     article_favs |-> article_favs, serial |-> serial]

\* the store after prepare_db on an empty database
EmptyDB ==
    [users |-> << >>, follows |-> EmptyBag, articles |-> {}, tags |-> << >>,
     article_tags |-> {}, comments |-> {}, article_favs |-> {},
     serial |-> [article_id |-> 0, comment_id |-> 0, now |-> 0]]

\* a handler's outcome: the response and the store it leaves
Failed(db, err, stmts) == [resp |-> into_response(err, stmts), db |-> db]
Done(db, body, stmts) == [resp |-> Success(body, stmts), db |-> db]

---------------------------------------------------------------------------
(* the Authorization header extractor *)

BAD_REQUEST == 400

\* a handler whose TypedHeader<Authorization<JWTToken>> is not optional is
\* not entered when the header is absent or JWTToken::decode gives None:
\* the extractor's rejection answers
Rejected(db) ==
    [resp |-> [status |-> BAD_REQUEST, body |-> [error |-> "rejection"], stmts |-> 0],
     db |-> db]

\* JWTToken::decode: Some only for a header of the form "Token <jwt>"
decode(token) == IF token.cond \in {"absent", "badscheme"} THEN None ELSE Some(token)

---------------------------------------------------------------------------
(* table users *)

\* UNIQUE (username), UNIQUE (email) of the schema: the constraint an
\* insert or update of `row` would break in `table`, or "none"
users_conflict(table, row) ==
    IF \E i \in DOMAIN table : i # row.id /\ table[i].username = row.username
    THEN "users_username_key"
    ELSE IF \E i \in DOMAIN table : i # row.id /\ table[i].email = row.email
    THEN "users_email_key"
    ELSE "none"

\* UserAuth as serialized: id and hash are #[serde(skip)]
UserAuthJson(row, token) ==
    [username |-> row.username, email |-> row.email, token |-> token,
     bio |-> row.bio, image |-> row.image]

\* registration: validate, hash, INSERT INTO users ... RETURNING, token
registration_result(db, user, salt) ==
    LET errs == RegistrationUser_validate(user)
        row == [id |-> Len(db.users) + 1, username |-> user.username, email |-> user.email,
                hash |-> hash_password(user.password, salt), bio |-> None, image |-> None]
        conflict == users_conflict(db.users, row)
    IN  IF errs # {}
        THEN Failed(db, ValidationError(errs), 0)
        ELSE IF conflict # "none"
        THEN Failed(db, UniqueViolation(conflict), 1)
        ELSE Done([db EXCEPT !.users = Append(@, row)],
                  [user |-> UserAuthJson(row, Some(generate_jwt(row.id)))], 1)

InvalidLogin == ForbiddenError([email_or_password |-> "is invalid"])

\* login with fetch_one in place of fetch_optional: a missing user is a
\* "row not found" store error
login_result_fetch_one(db, user) ==
    LET errs == LoginUser_validate(user)
        found == {i \in DOMAIN db.users : db.users[i].email = user.email}
        user_auth == db.users[CHOOSE i \in found : TRUE]
    IN  IF errs # {}
        THEN Failed(db, ValidationError(errs), 0)
        ELSE IF found = {}
        THEN Failed(db, RowNotFound, 1)
        ELSE IF ~verify_password(user_auth.hash, user.password)
        THEN Failed(db, InvalidLogin, 1)
        ELSE Done(db, [user |-> UserAuthJson(user_auth, Some(generate_jwt(user_auth.id)))], 1)

\* login: validate, SELECT by email, verify the password, token
login_result(db, user) ==
    LET errs == LoginUser_validate(user)
        found == {i \in DOMAIN db.users : db.users[i].email = user.email}
        user_auth == db.users[CHOOSE i \in found : TRUE]
    IN  IF errs # {}
        THEN Failed(db, ValidationError(errs), 0)
        ELSE IF found = {}
        THEN Failed(db, InvalidLogin, 1)
        ELSE IF ~verify_password(user_auth.hash, user.password)
        THEN Failed(db, InvalidLogin, 1)
        ELSE Done(db, [user |-> UserAuthJson(user_auth, Some(generate_jwt(user_auth.id)))], 1)

\* get_user: SELECT ... WHERE id = $1, fetch_one
get_user(db, user_id) ==
    IF user_id \in DOMAIN db.users
    THEN [ok |-> TRUE, user |-> db.users[user_id]]
    ELSE [ok |-> FALSE, err |-> RowNotFound]

\* auth_user: verify_token, then get_user; stmts is what it issued
auth_user(db, token) ==
    LET v == verify_token(token)
        u == get_user(db, v.user_id)
    IN  IF ~v.ok THEN [ok |-> FALSE, err |-> v.err, stmts |-> 0]
        ELSE IF ~u.ok THEN [ok |-> FALSE, err |-> u.err, stmts |-> 1]
        ELSE [ok |-> TRUE, user |-> u.user, stmts |-> 1]

\* get_current_user
get_current_user_result(db, token) ==
    LET a == auth_user(db, token)
    IN  IF decode(token) = None THEN Rejected(db)
        ELSE IF ~a.ok THEN Failed(db, a.err, a.stmts)
        ELSE Done(db, [user |-> UserAuthJson(a.user, Some(token))], a.stmts)

\* update_user with SET (bio, image) = ($4, $5) in place of COALESCE: a field
\* the request omits is written as NULL
update_user_overwrite(db, token, data, salt) ==
    LET a == auth_user(db, token)
        old == a.user
        hash == IF data.password = None THEN None
                ELSE Some(hash_password(data.password[1], salt))
        row == [id |-> old.id,
                email |-> COALESCE(data.email, old.email),
                username |-> COALESCE(data.username, old.username),
                hash |-> COALESCE(hash, old.hash),
                bio |-> data.bio,
                image |-> data.image]
        conflict == users_conflict(db.users, row)
    IN  IF decode(token) = None THEN Rejected(db)
        ELSE IF ~a.ok
        THEN Failed(db, a.err, a.stmts)
        ELSE IF conflict # "none"
        THEN Failed(db, UniqueViolation(conflict), a.stmts + 1)
        ELSE Done([db EXCEPT !.users[old.id] = row],
                  [user |-> UserAuthJson(row, Some(token))], a.stmts + 1)

\* update_user without "updated_user.token = user.token": the response
\* carries the NULL AS token of the RETURNING clause
update_user_null_token(db, token, data, salt) ==
    LET a == auth_user(db, token)
        old == a.user
        hash == IF data.password = None THEN None
                ELSE Some(hash_password(data.password[1], salt))
        row == [id |-> old.id,
                email |-> COALESCE(data.email, old.email),
                username |-> COALESCE(data.username, old.username),
                hash |-> COALESCE(hash, old.hash),
                bio |-> IF data.bio = None THEN old.bio ELSE data.bio,
                image |-> IF data.image = None THEN old.image ELSE data.image]
        conflict == users_conflict(db.users, row)
    IN  IF decode(token) = None THEN Rejected(db)
        ELSE IF ~a.ok
        THEN Failed(db, a.err, a.stmts)
        ELSE IF conflict # "none"
        THEN Failed(db, UniqueViolation(conflict), a.stmts + 1)
        ELSE Done([db EXCEPT !.users[old.id] = row],
                  [user |-> UserAuthJson(row, None)], a.stmts + 1)

\* update_user: auth_user, hash the new password, UPDATE users SET ... =
\* COALESCE(...) WHERE id = $6 RETURNING; the handler never calls
\* data.validate()
update_user_result(db, token, data, salt) ==
    LET a == auth_user(db, token)
        old == a.user
        hash == IF data.password = None THEN None
                ELSE Some(hash_password(data.password[1], salt))
        row == [id |-> old.id,
                email |-> COALESCE(data.email, old.email),
                username |-> COALESCE(data.username, old.username),
                hash |-> COALESCE(hash, old.hash),
                bio |-> IF data.bio = None THEN old.bio ELSE data.bio,
                image |-> IF data.image = None THEN old.image ELSE data.image]
        conflict == users_conflict(db.users, row)
    IN  IF decode(token) = None THEN Rejected(db)
        ELSE IF ~a.ok
        THEN Failed(db, a.err, a.stmts)
        ELSE IF conflict # "none"
        THEN Failed(db, UniqueViolation(conflict), a.stmts + 1)
        ELSE Done([db EXCEPT !.users[old.id] = row],
                  [user |-> UserAuthJson(row, Some(token))], a.stmts + 1)

---------------------------------------------------------------------------
(* profiles and follows *)

\* the optional viewer with .ok() in place of .transpose()?: a token that
\* fails verification counts as no token
optional_viewer_or_anonymous(token) ==
    IF decode(token) # None /\ verify_token(token).ok
    THEN [ok |-> TRUE, user_id |-> Some(verify_token(token).user_id)]
    ELSE [ok |-> TRUE, user_id |-> None]

\* token.map(|token| verify_token(..)).transpose(): the optional viewer
optional_viewer(token) ==
    IF decode(token) = None THEN [ok |-> TRUE, user_id |-> None]
    ELSE LET v == verify_token(token)
         IN  IF v.ok THEN [ok |-> TRUE, user_id |-> Some(v.user_id)]
             ELSE [ok |-> FALSE, err |-> v.err]

\* the following subquery without its condition on follower_id: true as
\* soon as anyone follows the user
following_by_anyone(db, viewer, user_id) ==
    \E f \in BagToSet(db.follows) : f[2] = user_id

\* ($n IS NOT NULL AND EXISTS (SELECT 1 FROM follows WHERE follower_id = $n
\*  AND followee_id = users.id))
following(db, viewer, user_id) ==
    viewer # None /\ BagIn(<<viewer[1], user_id>>, db.follows)

\* UserProfile as serialized (id is #[serde(skip)])
UserProfile(row, is_following) ==
    [id |-> row.id, username |-> row.username, bio |-> row.bio, image |-> row.image,
     following |-> is_following]

\* get_user_profile: SELECT ... FROM users WHERE username = $1, fetch_one
get_user_profile(db, username, req_user_id) ==
    LET found == {i \in DOMAIN db.users : db.users[i].username = username}
        row == db.users[CHOOSE i \in found : TRUE]
    IN  IF found = {} THEN [ok |-> FALSE, err |-> RowNotFound]
        ELSE [ok |-> TRUE, profile |-> UserProfile(row, following(db, req_user_id, row.id))]

\* get_profile
get_profile_result(db, token, username) ==
    LET v == optional_viewer(token)
        p == get_user_profile(db, username, v.user_id)
    IN  IF ~v.ok THEN Failed(db, v.err, 0)
        ELSE IF ~p.ok THEN Failed(db, p.err, 1)
        ELSE Done(db, [profile |-> p.profile], 1)

\* PRIMARY KEY (follower_id, followee_id) and the foreign keys of follows
follows_conflict(db, edge) ==
    IF edge[1] \notin DOMAIN db.users THEN ForeignKeyViolation("follows_follower_id_fkey")
    ELSE IF BagIn(edge, db.follows) THEN UniqueViolation("follows_pkey")
    ELSE None

\* the INSERT INTO follows of follow_user on a table that refuses no row
insert_follow_unchecked(db, follower_id, followee) ==
    LET edge == <<follower_id, followee.id>>
    IN  Done([db EXCEPT !.follows = @ (+) SetToBag({edge})],
             [profile |-> [followee EXCEPT !.following = TRUE]], 2)

\* INSERT INTO follows (follower_id, followee_id) VALUES ($1, $2), then
\* followee.following = true and the answer
insert_follow(db, follower_id, followee) ==
    LET edge == <<follower_id, followee.id>>
        conflict == follows_conflict(db, edge)
    IN  IF conflict # None THEN Failed(db, conflict, 2)
        ELSE Done([db EXCEPT !.follows = @ (+) SetToBag({edge})],
                  [profile |-> [followee EXCEPT !.following = TRUE]], 2)

\* follow_user: verify_token, get_user_profile, INSERT INTO follows
follow_user_result(db, token, username) ==
    LET v == verify_token(token)
        p == get_user_profile(db, username, Some(v.user_id))
    IN  IF decode(token) = None THEN Rejected(db)
        ELSE IF ~v.ok THEN Failed(db, v.err, 0)
        ELSE IF ~p.ok THEN Failed(db, p.err, 1)
        ELSE insert_follow(db, v.user_id, p.profile)

\* DELETE FROM follows WHERE (follower_id, followee_id) = ($1, $2): every
\* row of the pair goes; then followee.following = false and the answer
delete_follow(db, follower_id, followee) ==
    LET edge == <<follower_id, followee.id>>
        kept == [e \in DOMAIN db.follows \ {edge} |-> db.follows[e]]
    IN  Done([db EXCEPT !.follows = kept],
             [profile |-> [followee EXCEPT !.following = FALSE]], 2)

\* unfollow_user: verify_token, get_user_profile, DELETE FROM follows
unfollow_user_result(db, token, username) ==
    LET v == verify_token(token)
        p == get_user_profile(db, username, Some(v.user_id))
    IN  IF decode(token) = None THEN Rejected(db)
        ELSE IF ~v.ok THEN Failed(db, v.err, 0)
        ELSE IF ~p.ok THEN Failed(db, p.err, 1)
        ELSE delete_follow(db, v.user_id, p.profile)

---------------------------------------------------------------------------
(* text: collation order and slugs *)

\* the characters of the model in collation order
Alphabet == <<" ", "!", "-", "A", "B", "a", "b", "c", "d">>

Rank(c) == CHOOSE i \in DOMAIN Alphabet : Alphabet[i] = c

\* s sorts strictly before t (lexicographic)
RECURSIVE TextLess(_, _)
TextLess(s, t) ==
    IF t = << >> THEN FALSE
    ELSE IF s = << >> THEN TRUE
    ELSE IF s[1] # t[1] THEN Rank(s[1]) < Rank(t[1])
    ELSE TextLess(Tail(s), Tail(t))

\* the texts of a finite set in ascending order
RECURSIVE SortTexts(_)
SortTexts(S) ==
    IF S = {} THEN << >>
    ELSE LET m == CHOOSE x \in S : \A y \in S \ {x} : TextLess(x, y)
         IN  <<m>> \o SortTexts(S \ {m})

to_lowercase(c) == CASE c = "A" -> "a" [] c = "B" -> "b" [] OTHER -> c

is_alphanumeric(c) == c \in {"A", "B", "a", "b", "c", "d"}

\* slug::slugify: alphanumerics lower-cased, every run of other characters
\* one "-", no "-" at either end
RECURSIVE slugify_from(_, _, _)
slugify_from(s, out, prev_is_dash) ==
    IF s = << >>
    THEN IF out # << >> /\ out[Len(out)] = "-" THEN SubSeq(out, 1, Len(out) - 1) ELSE out
    ELSE IF is_alphanumeric(s[1])
    THEN slugify_from(Tail(s), Append(out, to_lowercase(s[1])), FALSE)
    ELSE IF prev_is_dash
    THEN slugify_from(Tail(s), out, TRUE)
    ELSE slugify_from(Tail(s), Append(out, "-"), TRUE)

slugify(title) == slugify_from(title, << >>, TRUE)

---------------------------------------------------------------------------
(* articles: the columns every article query selects *)

\* the tag list without the ORDER BY of its array_agg: the names in the
\* order of the tags rows
tag_list_unordered(db, article_id) ==
    LET ids == SelectSeq([i \in DOMAIN db.tags |-> i],
                         LAMBDA i : <<article_id, i>> \in db.article_tags)
    IN  [k \in DOMAIN ids |-> db.tags[ids[k]]]

\* COALESCE((SELECT array_agg(tags.name ORDER BY tags.name ASC) FROM
\* article_tags INNER JOIN tags ON ... WHERE article_id = articles.id), '{}')
tag_list(db, article_id) ==
    SortTexts({db.tags[at[2]] : at \in {x \in db.article_tags : x[1] = article_id}})

\* favorited without the "AND user_id = $n" of its subquery: true as soon as
\* anyone has favorited the article
favorited_by_anyone(db, viewer, article_id) ==
    viewer # None /\ \E f \in db.article_favs : f[1] = article_id

\* ($n IS NOT NULL AND EXISTS (SELECT 1 FROM article_favs WHERE article_id =
\* articles.id AND user_id = $n))
favorited(db, viewer, article_id) ==
    viewer # None /\ <<article_id, viewer[1]>> \in db.article_favs

\* the count subquery without its WHERE clause: the rows of every article
favorites_count_of_all(db, article_id) == Cardinality(db.article_favs)

\* (SELECT COUNT(*) FROM article_favs WHERE article_id = articles.id)
favorites_count(db, article_id) ==
    Cardinality({f \in db.article_favs : f[1] = article_id})

\* the users row joined to an articles or comments row (INNER JOIN users):
\* the empty set when the author is not stored
author_of(db, author_id) == {db.users[i] : i \in DOMAIN db.users \cap {author_id}}

\* struct Article (id is #[serde(skip)])
Article(row, tagList, isFavorited, favoritesCount, author) ==
    [id |-> row.id, slug |-> row.slug, title |-> row.title,
     description |-> row.description, body |-> row.body, tag_list |-> tagList,
     created_at |-> row.created_at, updated_at |-> row.updated_at,
     favorited |-> isFavorited, favorites_count |-> favoritesCount, author |-> author]

\* the select list of list_articles, get_article_by_slug and update_article
\* for one articles row and its author
select_article(db, row, author, viewer) ==
    Article(row, tag_list(db, row.id), favorited(db, viewer, row.id),
            favorites_count(db, row.id),
            UserProfile(author, following(db, viewer, author.id)))

\* the select list of feed_articles: the author's following is the literal TRUE
select_feed_article(db, row, author, viewer) ==
    Article(row, tag_list(db, row.id), favorited(db, viewer, row.id),
            favorites_count(db, row.id), UserProfile(author, TRUE))

\* ORDER BY created_at DESC over a set of articles rows
RECURSIVE order_by_created_at_desc(_)
order_by_created_at_desc(rows) ==
    IF rows = {} THEN << >>
    ELSE LET m == CHOOSE r \in rows : \A q \in rows : q.created_at <= r.created_at
         IN  <<m>> \o order_by_created_at_desc(rows \ {m})

\* LIMIT $limit OFFSET $offset over an ordered result
limit_offset(rows, limit, offset) ==
    SubSeq(rows, offset + 1, IF offset + limit < Len(rows) THEN offset + limit ELSE Len(rows))

DefaultLimit == 20
DefaultOffset == 0

\* the WHERE clause of list_articles without its tag condition
list_articles_where_any_tag(db, query) ==
    {a \in db.articles :
        /\ author_of(db, a.author_id) # {}
        /\ query.author = None
            \/ \E u \in author_of(db, a.author_id) : u.username = query.author[1]
        /\ query.favorited = None
            \/ \E f \in db.article_favs :
                /\ f[1] = a.id
                /\ \E u \in author_of(db, f[2]) : u.username = query.favorited[1]}

\* the WHERE clause of list_articles
list_articles_where(db, query) ==
    {a \in db.articles :
        /\ author_of(db, a.author_id) # {}
        /\ query.author = None
            \/ \E u \in author_of(db, a.author_id) : u.username = query.author[1]
        /\ query.favorited = None
            \/ \E f \in db.article_favs :
                /\ f[1] = a.id
                /\ \E u \in author_of(db, f[2]) : u.username = query.favorited[1]
        /\ query.tag = None
            \/ \E at \in db.article_tags : at[1] = a.id /\ db.tags[at[2]] = query.tag[1]}

\* "articlesCount": articles.iter().next().map(|a| a.count).unwrap_or(0),
\* where every fetched row carries COUNT(*) OVER(), the number of rows the
\* WHERE clause matched
articlesCount(page, matched) == IF page = << >> THEN 0 ELSE Cardinality(matched)

\* list_articles
list_articles_result(db, token, query) ==
    LET v == optional_viewer(token)
        matched == list_articles_where(db, query)
        page == limit_offset(order_by_created_at_desc(matched),
                             UnwrapOr(query.limit, DefaultLimit),
                             UnwrapOr(query.offset, DefaultOffset))
        view(row) == select_article(db, row, CHOOSE u \in author_of(db, row.author_id) : TRUE,
                                    v.user_id)
    IN  IF ~v.ok THEN Failed(db, v.err, 0)
        ELSE Done(db, [articlesCount |-> articlesCount(page, matched),
                       articles |-> [i \in DOMAIN page |-> view(page[i])]], 1)

\* the WHERE clause of feed_articles with the two columns of follows
\* exchanged: the articles of those who follow the caller
feed_articles_where_followers(db, user_id) ==
    {a \in db.articles :
        /\ author_of(db, a.author_id) # {}
        /\ \E f \in BagToSet(db.follows) :
            f[2] = user_id /\ f[1] = a.author_id /\ author_of(db, f[1]) # {}}

\* the WHERE clause of feed_articles
feed_articles_where(db, user_id) ==
    {a \in db.articles :
        /\ author_of(db, a.author_id) # {}
        /\ \E f \in BagToSet(db.follows) :
            f[1] = user_id /\ f[2] = a.author_id /\ author_of(db, f[2]) # {}}

\* feed_articles
feed_articles_result(db, token, query) ==
    LET v == verify_token(token)
        matched == feed_articles_where(db, v.user_id)
        page == limit_offset(order_by_created_at_desc(matched),
                             UnwrapOr(query.limit, DefaultLimit),
                             UnwrapOr(query.offset, DefaultOffset))
        view(row) == select_feed_article(db, row,
                                         CHOOSE u \in author_of(db, row.author_id) : TRUE,
                                         Some(v.user_id))
    IN  IF decode(token) = None THEN Rejected(db)
        ELSE IF ~v.ok THEN Failed(db, v.err, 0)
        ELSE Done(db, [articlesCount |-> articlesCount(page, matched),
                       articles |-> [i \in DOMAIN page |-> view(page[i])]], 1)

\* get_article_by_slug: SELECT ... WHERE articles.slug = $1, fetch_one
get_article_by_slug(db, slug, user_id) ==
    LET found == {a \in db.articles : a.slug = slug /\ author_of(db, a.author_id) # {}}
        row == CHOOSE a \in found : TRUE
    IN  IF found = {} THEN [ok |-> FALSE, err |-> RowNotFound]
        ELSE [ok |-> TRUE,
              article |-> select_article(db, row,
                              CHOOSE u \in author_of(db, row.author_id) : TRUE, user_id)]

\* get_article
get_article_result(db, token, slug) ==
    LET v == optional_viewer(token)
        a == get_article_by_slug(db, slug, v.user_id)
    IN  IF ~v.ok THEN Failed(db, v.err, 0)
        ELSE IF ~a.ok THEN Failed(db, a.err, 1)
        ELSE Done(db, [article |-> a.article], 1)

---------------------------------------------------------------------------
(* articles: writes *)

\* CreateArticleData::validate
CreateArticleData_validate(article) ==
    Rule(Len(article.title) >= MinBlank, "title", "title can't be blank")
    \cup Rule(Len(article.description) >= MinBlank, "description", "description can't be blank")
    \cup Rule(Len(article.body) >= MinBlank, "body", "body can't be blank")

\* UNIQUE (slug) and the author foreign key of articles
articles_conflict(db, row) ==
    IF row.author_id \notin DOMAIN db.users THEN ForeignKeyViolation("articles_author_id_fkey")
    ELSE IF \E a \in db.articles : a.slug = row.slug THEN UniqueViolation("articles_slug_key")
    ELSE None

\* INSERT INTO tags (name) SELECT * FROM UNNEST($1) ON CONFLICT DO NOTHING
RECURSIVE insert_tags(_, _)
insert_tags(table, names) ==
    IF names = << >> THEN table
    ELSE IF names[1] \in Range(table) THEN insert_tags(table, Tail(names))
    ELSE insert_tags(Append(table, names[1]), Tail(names))

\* INSERT INTO article_tags SELECT $1, tags.id FROM tags WHERE tags.name = ANY($2)
link_tags(db, article_id, names) ==
    db.article_tags \cup {<<article_id, i>> : i \in {j \in DOMAIN db.tags : db.tags[j] \in Range(names)}}

\* create_article with INSERT INTO tags run before INSERT INTO articles
create_article_tags_first(db, token, article) ==
    LET errs == CreateArticleData_validate(article)
        v == verify_token(token)
        row == [id |-> db.serial.article_id + 1, slug |-> slugify(article.title),
                title |-> article.title, description |-> article.description,
                body |-> article.body, author_id |-> v.user_id,
                created_at |-> db.serial.now + 1, updated_at |-> db.serial.now + 1]
        conflict == articles_conflict(db, row)
        author == CHOOSE u \in author_of(db, row.author_id) : TRUE
        db1 == [db EXCEPT !.tags = insert_tags(@, article.tag_list)]
        db2 == [db1 EXCEPT !.articles = @ \cup {row},
                           !.serial.article_id = @ + 1, !.serial.now = @ + 1]
        db3 == [db2 EXCEPT !.article_tags = link_tags(db2, row.id, article.tag_list)]
    IN  IF decode(token) = None THEN Rejected(db)
        ELSE IF errs # {} THEN Failed(db, ValidationError(errs), 0)
        ELSE IF ~v.ok THEN Failed(db, v.err, 0)
        ELSE IF conflict # None THEN Failed(db1, conflict, 2)
        ELSE Done(db3, [article |-> Article(row, article.tag_list, FALSE, 0,
                            UserProfile(author, BagIn(<<v.user_id, author.id>>, db.follows)))], 3)

\* create_article: validate, verify_token, slugify, INSERT INTO articles,
\* INSERT INTO tags, INSERT INTO article_tags; the response carries the tag
\* list as it was given
create_article_result(db, token, article) ==
    LET errs == CreateArticleData_validate(article)
        v == verify_token(token)
        row == [id |-> db.serial.article_id + 1, slug |-> slugify(article.title),
                title |-> article.title, description |-> article.description,
                body |-> article.body, author_id |-> v.user_id,
                created_at |-> db.serial.now + 1, updated_at |-> db.serial.now + 1]
        conflict == articles_conflict(db, row)
        author == CHOOSE u \in author_of(db, row.author_id) : TRUE
        db1 == [db EXCEPT !.articles = @ \cup {row},
                          !.serial.article_id = @ + 1, !.serial.now = @ + 1]
        db2 == [db1 EXCEPT !.tags = insert_tags(@, article.tag_list)]
        db3 == [db2 EXCEPT !.article_tags = link_tags(db2, row.id, article.tag_list)]
    IN  IF decode(token) = None THEN Rejected(db)
        ELSE IF errs # {} THEN Failed(db, ValidationError(errs), 0)
        ELSE IF ~v.ok THEN Failed(db, v.err, 0)
        ELSE IF conflict # None THEN Failed(db, conflict, 1)
        ELSE Done(db3, [article |-> Article(row, article.tag_list, FALSE, 0,
                            UserProfile(author, BagIn(<<v.user_id, author.id>>, db.follows)))], 3)

\* update_article without the "AND author_id = $5" of its WHERE clause
update_article_any_author(db, token, slug, article) ==
    LET v == verify_token(token)
        found == {a \in db.articles : a.slug = slug /\ author_of(db, a.author_id) # {}}
        old == CHOOSE a \in found : TRUE
        row == [old EXCEPT !.title = COALESCE(article.title, @),
                           !.description = COALESCE(article.description, @),
                           !.body = COALESCE(article.body, @)]
        db1 == [db EXCEPT !.articles = (@ \ {old}) \cup {row}]
    IN  IF decode(token) = None THEN Rejected(db)
        ELSE IF ~v.ok THEN Failed(db, v.err, 0)
        ELSE IF found = {} THEN Failed(db, RowNotFound, 1)
        ELSE Done(db1, [article |-> select_article(db1, row,
                            CHOOSE u \in author_of(db, row.author_id) : TRUE,
                            Some(v.user_id))], 1)

\* update_article with "slug = slugify(title)" added to its SET list
update_article_reslug(db, token, slug, article) ==
    LET v == verify_token(token)
        found == {a \in db.articles : a.slug = slug /\ a.author_id = v.user_id
                                      /\ author_of(db, a.author_id) # {}}
        old == CHOOSE a \in found : TRUE
        row == [old EXCEPT !.title = COALESCE(article.title, @),
                           !.description = COALESCE(article.description, @),
                           !.body = COALESCE(article.body, @),
                           !.slug = slugify(COALESCE(article.title, old.title))]
        db1 == [db EXCEPT !.articles = (@ \ {old}) \cup {row}]
    IN  IF decode(token) = None THEN Rejected(db)
        ELSE IF ~v.ok THEN Failed(db, v.err, 0)
        ELSE IF found = {} THEN Failed(db, RowNotFound, 1)
        ELSE Done(db1, [article |-> select_article(db1, row,
                            CHOOSE u \in author_of(db, row.author_id) : TRUE,
                            Some(v.user_id))], 1)

\* update_article: verify_token, UPDATE articles SET ... = COALESCE(...)
\* WHERE slug = $4 AND author_id = $5 RETURNING, fetch_one
update_article_result(db, token, slug, article) ==
    LET v == verify_token(token)
        found == {a \in db.articles : a.slug = slug /\ a.author_id = v.user_id
                                      /\ author_of(db, a.author_id) # {}}
        old == CHOOSE a \in found : TRUE
        row == [old EXCEPT !.title = COALESCE(article.title, @),
                           !.description = COALESCE(article.description, @),
                           !.body = COALESCE(article.body, @)]
        db1 == [db EXCEPT !.articles = (@ \ {old}) \cup {row}]
    IN  IF decode(token) = None THEN Rejected(db)
        ELSE IF ~v.ok THEN Failed(db, v.err, 0)
        ELSE IF found = {} THEN Failed(db, RowNotFound, 1)
        ELSE Done(db1, [article |-> select_article(db1, row,
                            CHOOSE u \in author_of(db, row.author_id) : TRUE,
                            Some(v.user_id))], 1)

\* json!({})
EmptyObject == [empty |-> TRUE]

\* ON DELETE CASCADE of the rows that reference the deleted articles
cascade_delete_articles(db, ids) ==
    [db EXCEPT !.articles = {a \in @ : a.id \notin ids},
               !.article_tags = {x \in @ : x[1] \notin ids},
               !.article_favs = {x \in @ : x[1] \notin ids},
               !.comments = {c \in @ : c.article_id \notin ids}]

\* delete_article: verify_token, DELETE FROM articles WHERE slug = $1 AND
\* author_id = $2
delete_article_result(db, token, slug) ==
    LET v == verify_token(token)
        ids == {a.id : a \in {x \in db.articles : x.slug = slug /\ x.author_id = v.user_id}}
    IN  IF decode(token) = None THEN Rejected(db)
        ELSE IF ~v.ok THEN Failed(db, v.err, 0)
        ELSE Done(cascade_delete_articles(db, ids), EmptyObject, 1)

---------------------------------------------------------------------------
(* comments *)

\* struct Comment
Comment(row, author) ==
    [id |-> row.id, created_at |-> row.created_at, updated_at |-> row.updated_at,
     body |-> row.body, author |-> author]

\* NOT NULL (article_id) and the author foreign key of comments
comments_conflict(db, row) ==
    IF row.article_id = None THEN NotNullViolation("article_id")
    ELSE IF row.author_id \notin DOMAIN db.users
    THEN ForeignKeyViolation("comments_author_id_fkey")
    ELSE None

\* (SELECT id FROM articles WHERE slug = $n): the id, or NULL
article_id_by_slug(db, slug) ==
    LET found == {a.id : a \in {x \in db.articles : x.slug = slug}}
    IN  IF found = {} THEN None ELSE Some(CHOOSE id \in found : TRUE)

\* add_comment on a comments table whose author_id is not checked against
\* users: the row of a token whose user is not stored is inserted, and the
\* join with users then finds no row to answer
add_comment_unchecked_author(db, token, slug, comment) ==
    LET v == verify_token(token)
        ins == [id |-> db.serial.comment_id + 1, body |-> comment.body,
                article_id |-> article_id_by_slug(db, slug), author_id |-> v.user_id,
                created_at |-> db.serial.now + 1, updated_at |-> db.serial.now + 1]
        row == [ins EXCEPT !.article_id = @[1]]
        db1 == [db EXCEPT !.comments = @ \cup {row},
                          !.serial.comment_id = @ + 1, !.serial.now = @ + 1]
    IN  IF decode(token) = None THEN Rejected(db)
        ELSE IF ~v.ok THEN Failed(db, v.err, 0)
        ELSE IF ins.article_id = None THEN Failed(db, NotNullViolation("article_id"), 1)
        ELSE IF author_of(db, row.author_id) = {} THEN Failed(db1, RowNotFound, 1)
        ELSE Done(db1, [comment |-> Comment(row, UserProfile(
                            CHOOSE u \in author_of(db, row.author_id) : TRUE,
                            following(db, Some(v.user_id), row.author_id)))], 1)

\* add_comment: verify_token, INSERT INTO comments ... RETURNING, fetch_one
add_comment_result(db, token, slug, comment) ==
    LET v == verify_token(token)
        ins == [id |-> db.serial.comment_id + 1, body |-> comment.body,
                article_id |-> article_id_by_slug(db, slug), author_id |-> v.user_id,
                created_at |-> db.serial.now + 1, updated_at |-> db.serial.now + 1]
        conflict == comments_conflict(db, ins)
        row == [ins EXCEPT !.article_id = @[1]]
        author == CHOOSE u \in author_of(db, row.author_id) : TRUE
    IN  IF decode(token) = None THEN Rejected(db)
        ELSE IF ~v.ok THEN Failed(db, v.err, 0)
        ELSE IF conflict # None THEN Failed(db, conflict, 1)
        ELSE Done([db EXCEPT !.comments = @ \cup {row},
                             !.serial.comment_id = @ + 1, !.serial.now = @ + 1],
                  [comment |-> Comment(row, UserProfile(author,
                                   following(db, Some(v.user_id), author.id)))], 1)

\* get_comments: SELECT ... WHERE comments.article_id = (SELECT id FROM
\* articles WHERE slug = $1) ORDER BY comments.created_at DESC
get_comments_result(db, token, slug) ==
    LET v == optional_viewer(token)
        id == article_id_by_slug(db, slug)
        rows == {c \in db.comments : id # None /\ c.article_id = id[1]
                                     /\ author_of(db, c.author_id) # {}}
        ordered == order_by_created_at_desc(rows)
        view(c) == LET author == CHOOSE u \in author_of(db, c.author_id) : TRUE
                   IN  Comment(c, UserProfile(author, following(db, v.user_id, author.id)))
    IN  IF ~v.ok THEN Failed(db, v.err, 0)
        ELSE Done(db, [comments |-> [i \in DOMAIN ordered |-> view(ordered[i])]], 1)

\* delete_comment without the "article_id = (SELECT id FROM articles WHERE
\* slug = $2)" of its WHERE clause
delete_comment_any_article(db, token, slug, id) ==
    LET v == verify_token(token)
        hit == {c \in db.comments : c.id = id /\ c.author_id = v.user_id}
    IN  IF decode(token) = None THEN Rejected(db)
        ELSE IF ~v.ok THEN Failed(db, v.err, 0)
        ELSE Done([db EXCEPT !.comments = @ \ hit], EmptyObject, 1)

\* delete_comment: verify_token, DELETE FROM comments WHERE id = $1 AND
\* article_id = (SELECT id FROM articles WHERE slug = $2) AND author_id = $3
delete_comment_result(db, token, slug, id) ==
    LET v == verify_token(token)
        article_id == article_id_by_slug(db, slug)
        hit == {c \in db.comments : /\ c.id = id
                                    /\ article_id # None /\ c.article_id = article_id[1]
                                    /\ c.author_id = v.user_id}
    IN  IF decode(token) = None THEN Rejected(db)
        ELSE IF ~v.ok THEN Failed(db, v.err, 0)
        ELSE Done([db EXCEPT !.comments = @ \ hit], EmptyObject, 1)

---------------------------------------------------------------------------
(* favorites *)

\* PRIMARY KEY (article_id, user_id) and the user foreign key of article_favs
article_favs_conflict(db, rows) ==
    IF \E r \in rows : r[2] \notin DOMAIN db.users
    THEN ForeignKeyViolation("article_favs_user_id_fkey")
    ELSE IF rows \cap db.article_favs # {} THEN UniqueViolation("article_favs_pkey")
    ELSE None

\* favorite_article: verify_token, INSERT INTO article_favs SELECT
\* articles.id, $2 FROM articles WHERE slug = $1, then get_article_by_slug
favorite_article_result(db, token, slug) ==
    LET v == verify_token(token)
        rows == {<<a.id, v.user_id>> : a \in {x \in db.articles : x.slug = slug}}
        conflict == article_favs_conflict(db, rows)
        db1 == [db EXCEPT !.article_favs = @ \cup rows]
        a == get_article_by_slug(db1, slug, Some(v.user_id))
    IN  IF decode(token) = None THEN Rejected(db)
        ELSE IF ~v.ok THEN Failed(db, v.err, 0)
        ELSE IF conflict # None THEN Failed(db, conflict, 1)
        ELSE IF ~a.ok THEN Failed(db1, a.err, 2)
        ELSE Done(db1, [article |-> a.article], 2)

\* unfavorite_article without the "AND user_id = $2" of its DELETE
unfavorite_article_of_everyone(db, token, slug) ==
    LET v == verify_token(token)
        ids == {a.id : a \in {x \in db.articles : x.slug = slug}}
        db1 == [db EXCEPT !.article_favs = {f \in @ : f[1] \notin ids}]
        a == get_article_by_slug(db1, slug, Some(v.user_id))
    IN  IF decode(token) = None THEN Rejected(db)
        ELSE IF ~v.ok THEN Failed(db, v.err, 0)
        ELSE IF ~a.ok THEN Failed(db1, a.err, 2)
        ELSE Done(db1, [article |-> a.article], 2)

\* unfavorite_article: verify_token, DELETE FROM article_favs WHERE
\* article_id = ANY(SELECT id FROM articles WHERE slug = $1) AND user_id =
\* $2, then get_article_by_slug
unfavorite_article_result(db, token, slug) ==
    LET v == verify_token(token)
        rows == {<<a.id, v.user_id>> : a \in {x \in db.articles : x.slug = slug}}
        db1 == [db EXCEPT !.article_favs = @ \ rows]
        a == get_article_by_slug(db1, slug, Some(v.user_id))
    IN  IF decode(token) = None THEN Rejected(db)
        ELSE IF ~v.ok THEN Failed(db, v.err, 0)
        ELSE IF ~a.ok THEN Failed(db1, a.err, 2)
        ELSE Done(db1, [article |-> a.article], 2)

---------------------------------------------------------------------------
(* The requests the environment sends *)

Alice == <<"a", "l">>
Bob == <<"b", "o">>
EmailA == <<"a", "@", "x">>
EmailB == <<"b", "@", "x">>
EmailNoAt == <<"a", "x">>
Pw1 == <<"p", "a", "s", "s", "w", "o", "r", "1">>
Pw2 == <<"p", "a", "s", "s", "w", "o", "r", "2">>
PwShort == <<"p", "w">>
Salts == {"s1", "s2"}

\* two accounts that can coexist
Accounts ==
    {[username |-> Alice, email |-> EmailA, password |-> Pw1],
     [username |-> Bob, email |-> EmailB, password |-> Pw1]}

\* registrations: valid ones, ones that collide on email or username, and
\* ones that break a validation rule
RegistrationUsers ==
    [username : {Alice, Bob, << >>}, email : {EmailA, EmailB, EmailNoAt},
     password : {Pw1, PwShort}]

LoginUsers == [email : {EmailA, EmailB, EmailNoAt, << >>}, password : {Pw1, Pw2, << >>}]

UpdateUserDatas ==
    [email : {None, Some(EmailB), Some(EmailNoAt)}, username : {None, Some(<< >>)},
     password : {None, Some(Pw2), Some(PwShort)}, bio : {None}, image : {None}]

\* tokens that fail verification, and headers that carry no token
BadTokens == {Token(1, "expired"), Token(1, "badsig"), Malformed}
NoTokens == {NoToken, Token(0, "badscheme")}

\* what a client can present: the tokens issued to the stored users, tokens
\* that fail verification, and no token
Tokens(db) == {generate_jwt(u) : u \in DOMAIN db.users} \cup BadTokens \cup NoTokens

TagA == <<"a">>
TagB == <<"b">>
TitleAb == <<"A", "b">>
TitleaB == <<"a", "B">>
TitleCd == <<"c", " ", "!", "d">>
SlugAb == <<"a", "b">>
SlugCd == <<"c", "-", "d">>
SlugNone == <<"d">>
Slugs == {SlugAb, SlugCd, SlugNone}

---------------------------------------------------------------------------
(* The state machine *)

Init ==
    /\ users = EmptyDB.users
    /\ follows = EmptyDB.follows
    /\ articles = EmptyDB.articles
    /\ tags = EmptyDB.tags
    /\ article_tags = EmptyDB.article_tags
    /\ comments = EmptyDB.comments
    /\ article_favs = EmptyDB.article_favs
    /\ serial = EmptyDB.serial
    /\ req = [op |-> "prepare_db", token |-> NoToken]
    /\ resp = Success(EmptyObject, 2)
    /\ inflight = EmptyBag
    /\ held = {}

\* the handler's outcome becomes the store and the response
Commit(r) ==
    /\ users' = r.db.users
    /\ follows' = r.db.follows
    /\ articles' = r.db.articles
    /\ tags' = r.db.tags
    /\ article_tags' = r.db.article_tags
    /\ comments' = r.db.comments
    /\ article_favs' = r.db.article_favs
    /\ serial' = r.db.serial
    /\ resp' = r.resp

\* the bounds on what the store may grow to
WithinBounds(db) ==
    /\ Len(db.users) <= MaxUsers
    /\ db.serial.article_id <= MaxArticles
    /\ db.serial.comment_id <= MaxComments

\* user_auth.token = Some(auth::generate_jwt(user_auth.id, &key)?): the token
\* a successful registration or login hands to its client
issued(request, response) ==
    IF request.op \in {"registration", "login"} /\ response.status = OK
    THEN {[token |-> response.body.user.token[1], username |-> response.body.user.username]}
    ELSE {}

\* a handler that runs from its first statement to its answer with no other
\* request in between
Handle(request, r) ==
    /\ WithinBounds(r.db)
    /\ req' = request
    /\ Commit(r)
    /\ inflight' = inflight
    /\ held' = held \cup issued(request, r.resp)

\* POST /api/users
registration(user, salt) ==
    Handle([op |-> "registration", token |-> NoToken, user |-> user],
           registration_result(DB, user, salt))

\* POST /api/users/login
login(user) ==
    Handle([op |-> "login", token |-> NoToken, user |-> user], login_result(DB, user))

\* GET /api/user
get_current_user(token) ==
    Handle([op |-> "get_current_user", token |-> token], get_current_user_result(DB, token))

\* PUT /api/user
update_user(token, data, salt) ==
    Handle([op |-> "update_user", token |-> token, user |-> data],
           update_user_result(DB, token, data, salt))

\* GET /api/profiles/:username
get_profile(token, username) ==
    Handle([op |-> "get_profile", token |-> token, username |-> username],
           get_profile_result(DB, token, username))

\* POST /api/profiles/:username/follow
follow_user(token, username) ==
    Handle([op |-> "follow_user", token |-> token, username |-> username],
           follow_user_result(DB, token, username))

\* DELETE /api/profiles/:username/follow
unfollow_user(token, username) ==
    Handle([op |-> "unfollow_user", token |-> token, username |-> username],
           unfollow_user_result(DB, token, username))

\* GET /api/articles
list_articles(token, query) ==
    Handle([op |-> "list_articles", token |-> token, query |-> query],
           list_articles_result(DB, token, query))

\* GET /api/articles/feed
feed_articles(token, query) ==
    Handle([op |-> "feed_articles", token |-> token, query |-> query],
           feed_articles_result(DB, token, query))

\* GET /api/articles/:slug
get_article(token, slug) ==
    Handle([op |-> "get_article", token |-> token, slug |-> slug],
           get_article_result(DB, token, slug))

\* POST /api/articles
create_article(token, article) ==
    Handle([op |-> "create_article", token |-> token, article |-> article],
           create_article_result(DB, token, article))

\* PUT /api/articles/:slug
update_article(token, slug, article) ==
    Handle([op |-> "update_article", token |-> token, slug |-> slug, article |-> article],
           update_article_result(DB, token, slug, article))

\* DELETE /api/articles/:slug
delete_article(token, slug) ==
    Handle([op |-> "delete_article", token |-> token, slug |-> slug],
           delete_article_result(DB, token, slug))

\* POST /api/articles/:slug/comments
add_comment(token, slug, comment) ==
    Handle([op |-> "add_comment", token |-> token, slug |-> slug, comment |-> comment],
           add_comment_result(DB, token, slug, comment))

\* GET /api/articles/:slug/comments
get_comments(token, slug) ==
    Handle([op |-> "get_comments", token |-> token, slug |-> slug],
           get_comments_result(DB, token, slug))

\* DELETE /api/articles/:slug/comments/:id
delete_comment(token, slug, id) ==
    Handle([op |-> "delete_comment", token |-> token, slug |-> slug, id |-> id],
           delete_comment_result(DB, token, slug, id))

\* POST /api/articles/:slug/favorite
favorite_article(token, slug) ==
    Handle([op |-> "favorite_article", token |-> token, slug |-> slug],
           favorite_article_result(DB, token, slug))

\* DELETE /api/articles/:slug/favorite
unfavorite_article(token, slug) ==
    Handle([op |-> "unfavorite_article", token |-> token, slug |-> slug],
           unfavorite_article_result(DB, token, slug))

---------------------------------------------------------------------------
(* Accounts: registration, login, the current user and its update *)

\* the requests of this specification: the two accounts, a registration that
\* repeats a stored email under a new name and one that repeats a name, and
\* inputs that break a validation rule
SomeRegistrations ==
    Accounts \cup
    {[username |-> Bob, email |-> EmailA, password |-> Pw2],
     [username |-> << >>, email |-> EmailB, password |-> Pw1],
     [username |-> Bob, email |-> EmailNoAt, password |-> PwShort]}

SomeLogins ==
    {[email |-> EmailA, password |-> Pw1], [email |-> EmailA, password |-> Pw2],
     [email |-> EmailB, password |-> Pw2], [email |-> EmailNoAt, password |-> Pw1],
     [email |-> EmailA, password |-> << >>]}

NoUpdate == [email |-> None, username |-> None, password |-> None, bio |-> None, image |-> None]

SomeUpdates ==
    {NoUpdate,
     [NoUpdate EXCEPT !.email = Some(EmailNoAt)],
     [NoUpdate EXCEPT !.password = Some(PwShort)]}

\* the tokens issued to the stored users and one that has expired
SomeTokens(db) == {generate_jwt(u) : u \in DOMAIN db.users} \cup {Token(1, "expired")}

NextUsers ==
    \/ \E user \in SomeRegistrations, salt \in Salts : registration(user, salt)
    \/ \E user \in SomeLogins : login(user)
    \/ \E token \in Tokens(DB) : get_current_user(token)
    \/ \E token \in SomeTokens(DB), data \in SomeUpdates, salt \in Salts :
        update_user(token, data, salt)

SpecUsers == Init /\ [][NextUsers]_vars

---------------------------------------------------------------------------
(* Articles and comments and who owns them *)

OneSalt == {"s1"}

ArticleAb == [title |-> TitleAb, description |-> "d", body |-> "b", tag_list |-> << >>]
ArticleAbTagged == [ArticleAb EXCEPT !.tag_list = <<TagB, TagA>>]
ArticleCd == [title |-> TitleCd, description |-> "d", body |-> "b", tag_list |-> << >>]
ArticleBlank == [title |-> << >>, description |-> "d", body |-> "b", tag_list |-> << >>]

NoChange == [title |-> None, description |-> None, body |-> None]

\* the tokens issued to the stored users
IssuedTokens(db) == {generate_jwt(u) : u \in DOMAIN db.users}

StoredSlugs == {SlugAb, SlugCd}

NextArticles ==
    \/ \E user \in Accounts, salt \in OneSalt : registration(user, salt)
    \/ \E token \in SomeTokens(DB), article \in {ArticleAb, ArticleCd, ArticleBlank} :
        create_article(token, article)
    \/ \E token \in IssuedTokens(DB), slug \in StoredSlugs :
        update_article(token, slug, [NoChange EXCEPT !.title = Some(TitleCd)])
    \/ \E token \in IssuedTokens(DB), slug \in StoredSlugs : delete_article(token, slug)
    \/ \E token \in IssuedTokens(DB), slug \in StoredSlugs :
        add_comment(token, slug, [body |-> "c"])
    \/ \E token \in IssuedTokens(DB), slug \in StoredSlugs, id \in 1..MaxComments :
        delete_comment(token, slug, id)
    \/ \E slug \in StoredSlugs : get_comments(NoToken, slug)

SpecArticles == Init /\ [][NextArticles]_vars

---------------------------------------------------------------------------
(* Favorites and the article lists *)

ListArticlesQuery(tag, author, favoritedBy, limit, offset) ==
    [tag |-> tag, author |-> author, favorited |-> favoritedBy, limit |-> limit, offset |-> offset]

NoQuery == ListArticlesQuery(None, None, None, None, None)

SomeQueries ==
    {NoQuery,
     [NoQuery EXCEPT !.limit = Some(1), !.offset = Some(1)],
     [NoQuery EXCEPT !.favorited = Some(Bob), !.offset = Some(1)],
     [NoQuery EXCEPT !.author = Some(Alice), !.tag = Some(TagA)]}

\* every combination of the filters with a few windows
ListQueries ==
    [tag : {None, Some(TagA)}, author : {None, Some(Alice)}, favorited : {None, Some(Bob)},
     limit : {None, Some(0), Some(1)}, offset : {None, Some(1)}]

FeedArticlesQuery(limit, offset) == [limit |-> limit, offset |-> offset]

FeedQueries == {FeedArticlesQuery(None, None), FeedArticlesQuery(Some(1), Some(1))}

NextFavs ==
    \/ \E user \in Accounts, salt \in OneSalt : registration(user, salt)
    \/ \E token \in IssuedTokens(DB) : follow_user(token, Alice)
    \/ \E token \in IssuedTokens(DB), article \in {ArticleAbTagged, ArticleCd} :
        create_article(token, article)
    \/ \E token \in IssuedTokens(DB), slug \in StoredSlugs : favorite_article(token, slug)
    \/ \E token \in IssuedTokens(DB), slug \in StoredSlugs : unfavorite_article(token, slug)
    \/ \E token \in IssuedTokens(DB) : update_article(token, SlugAb, NoChange)
    \/ \E token \in IssuedTokens(DB) \cup {NoToken}, slug \in StoredSlugs :
        get_article(token, slug)
    \/ \E token \in IssuedTokens(DB) \cup {NoToken}, query \in SomeQueries :
        list_articles(token, query)
    \/ \E token \in IssuedTokens(DB), query \in FeedQueries : feed_articles(token, query)

SpecFavs == Init /\ [][NextFavs]_vars

---------------------------------------------------------------------------
(* Claims about accounts, checked under SpecUsers *)

\* the login input names a stored email with a password that is not its own
WrongPassword(db, user) ==
    \E i \in DOMAIN db.users :
        db.users[i].email = user.email /\ ~verify_password(db.users[i].hash, user.password)

UnknownEmail(db, user) == \A i \in DOMAIN db.users : db.users[i].email # user.email

\* C4: a login that names a stored email with a wrong password, and a login
\* that names an email no user has, get the response the same input gets
\* from a store without any user; when the input passes validation that
\* response is the generic 403 "email or password is invalid"; neither
\* changes the store.
C4_LoginHidesRegistration ==
    /\ \A user \in LoginUsers :
        LET r == login_result(DB, user)
        IN  (WrongPassword(DB, user) \/ UnknownEmail(DB, user)) =>
                /\ r.resp = login_result(EmptyDB, user).resp
                /\ r.resp.status # OK
                /\ LoginUser_validate(user) = {} =>
                    /\ r.resp.status = FORBIDDEN
                    /\ r.resp.body = [error |-> [email_or_password |-> "is invalid"]]
                /\ r.db = DB
    /\ (req.op = "login" /\ (WrongPassword(DB, req.user) \/ UnknownEmail(DB, req.user))) =>
            resp = login_result(EmptyDB, req.user).resp

\* a login with a stored email and a wrong password was answered 403
C4_Witness ==
    /\ req.op = "login"
    /\ WrongPassword(DB, req.user)
    /\ resp.status = FORBIDDEN

\* C7 (as claimed): a valid registration whose email is already stored is
\* answered with a validation or conflict status (422 or 409), not with a
\* 500, and leaves the users table as it was.
C7_DuplicateEmailRejected ==
    [][(/\ req'.op = "registration"
        /\ RegistrationUser_validate(req'.user) = {}
        /\ \A i \in DOMAIN users : users[i].username # req'.user.username
        /\ \E i \in DOMAIN users : users[i].email = req'.user.email)
       => (resp'.status \in {409, 422} /\ users' = users)]_vars

\* C9 (as claimed): a request with an expired token and the same request
\* with a token whose signature is invalid get the same response.
C9_TokenFailuresIndistinguishable ==
    /\ \A u \in DOMAIN users :
        get_current_user_result(DB, Token(u, "expired")).resp
            = get_current_user_result(DB, Token(u, "badsig")).resp
    /\ \A u \in DOMAIN users, data \in SomeUpdates, salt \in Salts :
        update_user_result(DB, Token(u, "expired"), data, salt).resp
            = update_user_result(DB, Token(u, "badsig"), data, salt).resp

\* the request carries a token that verifies
Authenticated == verify_token(req.token).ok

\* C10 (as claimed): a Register, Login, UpdateUser or CreateArticle request
\* whose input breaks a validation rule (and whose token, where one is
\* required, verifies) is answered 422 before any statement reaches the
\* store.
C10_ValidationBeforeStore ==
    /\ (req.op = "registration" /\ RegistrationUser_validate(req.user) # {})
        => (resp.status = UNPROCESSABLE_ENTITY /\ resp.stmts = 0)
    /\ (req.op = "login" /\ LoginUser_validate(req.user) # {})
        => (resp.status = UNPROCESSABLE_ENTITY /\ resp.stmts = 0)
    /\ (req.op = "update_user" /\ Authenticated /\ UpdateUserData_validate(req.user) # {})
        => (resp.status = UNPROCESSABLE_ENTITY /\ resp.stmts = 0)
    /\ (req.op = "create_article" /\ Authenticated /\ CreateArticleData_validate(req.article) # {})
        => (resp.status = UNPROCESSABLE_ENTITY /\ resp.stmts = 0)

---------------------------------------------------------------------------
(* Claims about articles and comments, checked under SpecArticles *)

UpdateArticles ==
    [title : {None, Some(TitleCd)}, description : {None, Some("e")}, body : {None}]

\* the articles with this slug that the token's user wrote
OwnArticles(token, slug) ==
    {a \in articles : a.slug = slug /\ a.author_id = token.user_id}

\* the comments with this id that the token's user wrote under the article
\* with this slug
OwnComments(token, slug, id) ==
    {c \in comments : /\ c.id = id
                      /\ c.author_id = token.user_id
                      /\ \E a \in articles : a.slug = slug /\ a.id = c.article_id}

\* C2: for every user's token, every slug and every comment id, DeleteArticle
\* answers {} and removes exactly the articles of that slug the caller wrote,
\* and DeleteComment answers {} and removes exactly the comment of that id
\* the caller wrote under the article named by the slug; when there is no
\* such row (another user's article or comment, a comment under another
\* article's slug, a missing row) the whole store is left as it was.
C2_OwnershipFilteredDeletes ==
    /\ \A token \in IssuedTokens(DB), slug \in Slugs :
        LET r == delete_article_result(DB, token, slug)
        IN  /\ r.resp = Success(EmptyObject, 1)
            /\ r.db.articles = articles \ OwnArticles(token, slug)
            /\ r.db.users = users /\ r.db.follows = follows /\ r.db.tags = tags
            /\ OwnArticles(token, slug) = {} => r.db = DB
    /\ \A token \in IssuedTokens(DB), slug \in Slugs, id \in 1..MaxComments :
        LET r == delete_comment_result(DB, token, slug, id)
        IN  /\ r.resp = Success(EmptyObject, 1)
            /\ r.db = [DB EXCEPT !.comments = comments \ OwnComments(token, slug, id)]
    /\ (req.op = "delete_comment" /\ Authenticated) =>
            /\ resp = Success(EmptyObject, 1)
            /\ OwnComments(req.token, req.slug, req.id) = {}

\* a DeleteComment by the comment's author that named another slug was
\* answered {} and the comment is still stored
C2_Witness ==
    /\ req.op = "delete_comment"
    /\ resp = Success(EmptyObject, 1)
    /\ \E c \in comments : c.id = req.id /\ c.author_id = req.token.user_id

\* C3: for every user's token, every slug and every change, UpdateArticle
\* by anyone but the author of a stored article of that slug is answered
\* with the 500 "row not found" store error and leaves the whole store as
\* it was; the author's call is answered 200 and changes nothing but that
\* article's title, description and body.
C3_UpdateByNonOwner ==
    \A token \in IssuedTokens(DB), slug \in Slugs, article \in UpdateArticles :
        LET r == update_article_result(DB, token, slug, article)
            own == OwnArticles(token, slug)
        IN  /\ own = {} =>
                /\ r.resp = into_response(RowNotFound, 1)
                /\ r.resp.status = INTERNAL_SERVER_ERROR
                /\ r.db = DB
            /\ own # {} =>
                /\ r.resp.status = OK
                /\ [r.db EXCEPT !.articles = articles] = DB
                /\ \E old \in own :
                    r.db.articles = (articles \ {old}) \cup
                        {[old EXCEPT !.title = COALESCE(article.title, @),
                                     !.description = COALESCE(article.description, @),
                                     !.body = COALESCE(article.body, @)]}

\* an UpdateArticle that named another user's stored article was answered 500
C3_Witness ==
    /\ req.op = "update_article"
    /\ resp = into_response(RowNotFound, 1)
    /\ \E a \in articles : a.slug = req.slug /\ a.author_id # req.token.user_id

AuthRequired ==
    {"get_current_user", "update_user", "follow_user", "unfollow_user", "feed_articles",
     "create_article", "update_article", "delete_article", "add_comment", "delete_comment",
     "favorite_article", "unfavorite_article"}

\* C8 (as claimed): a request to an operation that requires authentication
\* whose token is malformed, has a bad signature or is expired is answered
\* 401 and writes nothing to the store.
C8_NoValidTokenNoEffect ==
    [][(req'.op \in AuthRequired /\ req'.token \in BadTokens)
       => (resp'.status = UNAUTHORIZED /\ store' = store)]_vars

---------------------------------------------------------------------------
(* Claims about favorites and the article lists, checked under SpecFavs *)

\* C1 (as claimed): the articlesCount that ListArticles answers is the number
\* of stored articles that match the filters of the query, whatever its
\* limit and offset.
C1_CountIgnoresWindow ==
    (req.op = "list_articles" /\ resp.status = OK) =>
        resp.body.articlesCount = Cardinality(list_articles_where(DB, req.query))

\* the favorited flag of a returned article is the stored edge of the viewer
FlagIsEdge(db, a, viewer) == a.favorited <=> <<a.id, viewer>> \in db.article_favs

\* every article of an answer carries the flag the store holds for the viewer
ArticleFlagIsEdge(r, viewer) ==
    r.resp.status = OK => FlagIsEdge(r.db, r.resp.body.article, viewer)

ArticlesFlagIsEdge(r, viewer) ==
    r.resp.status = OK =>
        \A i \in DOMAIN r.resp.body.articles : FlagIsEdge(r.db, r.resp.body.articles[i], viewer)

\* C5: for every user V and every article, the favorited flag that
\* GetArticle, ListArticles, FeedArticles, UpdateArticle, FavoriteArticle
\* and UnfavoriteArticle answer to V is true exactly when article_favs
\* holds the edge (article, V) in the store the operation leaves.
C5_FavoritedMatchesEdges ==
    /\ \A token \in IssuedTokens(DB) :
        /\ \A slug \in Slugs :
            /\ ArticleFlagIsEdge(get_article_result(DB, token, slug), token.user_id)
            /\ ArticleFlagIsEdge(favorite_article_result(DB, token, slug), token.user_id)
            /\ ArticleFlagIsEdge(unfavorite_article_result(DB, token, slug), token.user_id)
            /\ \A article \in UpdateArticles :
                ArticleFlagIsEdge(update_article_result(DB, token, slug, article), token.user_id)
        /\ \A query \in ListQueries :
            ArticlesFlagIsEdge(list_articles_result(DB, token, query), token.user_id)
        /\ \A query \in FeedQueries :
            ArticlesFlagIsEdge(feed_articles_result(DB, token, query), token.user_id)
    /\ (Authenticated /\ resp.status = OK) =>
        /\ req.op \in {"get_article", "update_article", "favorite_article", "unfavorite_article"}
            => FlagIsEdge(DB, resp.body.article, req.token.user_id)
        /\ req.op \in {"list_articles", "feed_articles"}
            => \A i \in DOMAIN resp.body.articles :
                FlagIsEdge(DB, resp.body.articles[i], req.token.user_id)

\* a list answered to a user shows an article they favorited and one they
\* did not
C5_Witness ==
    /\ req.op = "list_articles"
    /\ Authenticated
    /\ resp.status = OK
    /\ \E i, j \in DOMAIN resp.body.articles :
        resp.body.articles[i].favorited /\ ~resp.body.articles[j].favorited

\* FavoriteArticle then UnfavoriteArticle by the same user on the same slug
RoundTrip(db, token, slug) ==
    unfavorite_article_result(favorite_article_result(db, token, slug).db, token, slug)

\* C6 (as claimed): from any reachable state, FavoriteArticle then
\* UnfavoriteArticle by one user on a stored article leaves its
\* favoritesCount as it was before the pair.
C6_RoundTripFromAnyState ==
    \A token \in IssuedTokens(DB), a \in articles :
        favorites_count(RoundTrip(DB, token, a.slug).db, a.id) = favorites_count(DB, a.id)

\* C6 (amended): from any reachable state in which the user has not
\* favorited the stored article, FavoriteArticle then UnfavoriteArticle by
\* that user are both answered 200, the second answers the favoritesCount
\* the article had before the pair, and the store is as it was, so the pair
\* can be repeated with the same outcome; from a state in which the user
\* has favorited it, the pair leaves favoritesCount one less.
C6_RoundTripWhenNotFavorited ==
    \A token \in IssuedTokens(DB), a \in articles :
        LET first == favorite_article_result(DB, token, a.slug)
            second == RoundTrip(DB, token, a.slug)
            again == RoundTrip(second.db, token, a.slug)
        IN  /\ <<a.id, token.user_id>> \notin article_favs =>
                /\ first.resp.status = OK
                /\ first.resp.body.article.favorites_count = favorites_count(DB, a.id) + 1
                /\ second.resp.status = OK
                /\ second.resp.body.article.favorites_count = favorites_count(DB, a.id)
                /\ second.db = DB
                /\ again.resp = second.resp
            /\ <<a.id, token.user_id>> \in article_favs =>
                favorites_count(second.db, a.id) = favorites_count(DB, a.id) - 1

\* an UnfavoriteArticle was answered by a user who now holds no favorite of
\* the article while another user still does
C6_Witness ==
    /\ req.op = "unfavorite_article"
    /\ resp.status = OK
    /\ ~resp.body.article.favorited
    /\ resp.body.article.favorites_count > 0

---------------------------------------------------------------------------
(* The current user and its update, checked under SpecAccount *)

NewSalt == {"s2"}

\* updates that set one field, several fields, a taken username, and values
\* the rules of UpdateUserData refuse
AccountUpdates ==
    {NoUpdate,
     [NoUpdate EXCEPT !.bio = Some("bio")],
     [NoUpdate EXCEPT !.image = Some("img"), !.password = Some(Pw2)],
     [NoUpdate EXCEPT !.username = Some(Bob)],
     [NoUpdate EXCEPT !.email = Some(EmailNoAt)],
     [NoUpdate EXCEPT !.password = Some(PwShort)],
     [NoUpdate EXCEPT !.username = Some(<< >>)]}

\* every combination of provided and omitted fields
PartialUpdates ==
    [email : {None, Some(EmailB)}, username : {None, Some(Bob)},
     password : {None, Some(Pw2)}, bio : {None, Some("bio")}, image : {None, Some("img")}]

NextAccount ==
    \/ \E user \in Accounts, salt \in OneSalt : registration(user, salt)
    \/ \E token \in SomeTokens(DB), data \in AccountUpdates, salt \in NewSalt :
        update_user(token, data, salt)
    \/ \E token \in Tokens(DB) : get_current_user(token)

SpecAccount == Init /\ [][NextAccount]_vars

\* the update provides a username outside 1-64 characters, an email that is
\* no email address, or a password outside 8-64 characters
BreaksRegisterRule(data) ==
    \/ data.username # None
        /\ (Len(data.username[1]) < MinUserName \/ Len(data.username[1]) > MaxUserName)
    \/ data.email # None /\ ~email(data.email[1])
    \/ data.password # None
        /\ (Len(data.password[1]) < MinPassword \/ Len(data.password[1]) > MaxPassword)

\* C11 (as claimed): an UpdateUser by an authenticated user that provides a
\* username outside 1-64 characters, an invalid email or a password outside
\* 8-64 characters is answered 422 and leaves the users table as it was.
C11_UpdateUserEnforcesRules ==
    [][(/\ req'.op = "update_user"
        /\ verify_token(req'.token).ok
        /\ BreaksRegisterRule(req'.user))
       => (resp'.status = UNPROCESSABLE_ENTITY /\ users' = users)]_vars

\* C12: for every user's token and every combination of provided and
\* omitted fields, a successful UpdateUser leaves each of the caller's
\* email, username, bio and image equal to the provided value, or to the
\* stored one when the field is omitted; the stored hash verifies the
\* provided password, or is the stored hash when the password is omitted;
\* every other user and every other table is as it was.
C12_UpdateUserIsPartial ==
    \A token \in IssuedTokens(DB), data \in PartialUpdates, salt \in NewSalt :
        LET r == update_user_result(DB, token, data, salt)
            id == token.user_id
            old == users[id]
            new == r.db.users[id]
        IN  r.resp.status = OK =>
                /\ new.email = (IF data.email = None THEN old.email ELSE data.email[1])
                /\ new.username = (IF data.username = None THEN old.username
                                   ELSE data.username[1])
                /\ new.bio = (IF data.bio = None THEN old.bio ELSE data.bio)
                /\ new.image = (IF data.image = None THEN old.image ELSE data.image)
                /\ IF data.password = None THEN new.hash = old.hash
                   ELSE verify_password(new.hash, data.password[1])
                /\ new.id = id
                /\ DOMAIN r.db.users = DOMAIN users
                /\ \A i \in DOMAIN users \ {id} : r.db.users[i] = users[i]
                /\ [r.db EXCEPT !.users = users] = DB

\* an UpdateUser that provided only a password and an image was answered 200
\* for a user whose bio had been set before and is still stored
C12_Witness ==
    /\ req.op = "update_user"
    /\ resp.status = OK
    /\ req.user.bio = None /\ req.user.password # None
    /\ users[req.token.user_id].bio = Some("bio")
    /\ verify_password(users[req.token.user_id].hash, req.user.password[1])

---------------------------------------------------------------------------
(* Profiles and follows, checked under SpecFollows.  follow_user and       *)
(* unfollow_user issue two statements (get_user_profile, then the INSERT   *)
(* or DELETE), each on a connection of its own: between the two, other     *)
(* requests run.                                                           *)

MaxInflight == 2

Usernames == {Alice, Bob}

\* follow_user or unfollow_user up to the answer of get_user_profile
lookup_followee(op, token, username) ==
    LET v == verify_token(token)
        p == get_user_profile(DB, username, Some(v.user_id))
    IN  /\ decode(token) # None
        /\ v.ok
        /\ p.ok
        /\ BagCardinality(inflight) < MaxInflight
        /\ held' = held
        /\ inflight' = inflight (+) SetToBag({[op |-> op, token |-> token,
                                                username |-> username,
                                                follower_id |-> v.user_id,
                                                followee |-> p.profile]})
        /\ UNCHANGED <<store, req, resp>>

follow_user_lookup(token, username) == lookup_followee("follow_user", token, username)

unfollow_user_lookup(token, username) == lookup_followee("unfollow_user", token, username)

\* the INSERT of a follow_user that has its followee, and its answer
follow_user_insert(h) ==
    /\ h.op = "follow_user"
    /\ req' = [op |-> h.op, token |-> h.token, username |-> h.username]
    /\ Commit(insert_follow(DB, h.follower_id, h.followee))
    /\ held' = held
    /\ inflight' = inflight (-) SetToBag({h})

\* the DELETE of an unfollow_user that has its followee, and its answer
unfollow_user_delete(h) ==
    /\ h.op = "unfollow_user"
    /\ req' = [op |-> h.op, token |-> h.token, username |-> h.username]
    /\ Commit(delete_follow(DB, h.follower_id, h.followee))
    /\ held' = held
    /\ inflight' = inflight (-) SetToBag({h})

NextFollows ==
    \/ \E user \in Accounts, salt \in OneSalt : registration(user, salt)
    \/ \E token \in IssuedTokens(DB), username \in Usernames : follow_user(token, username)
    \/ \E token \in IssuedTokens(DB), username \in Usernames : unfollow_user(token, username)
    \/ \E token \in IssuedTokens(DB), username \in Usernames :
        follow_user_lookup(token, username)
    \/ \E token \in IssuedTokens(DB), username \in Usernames :
        unfollow_user_lookup(token, username)
    \/ \E h \in BagToSet(inflight) : follow_user_insert(h)
    \/ \E h \in BagToSet(inflight) : unfollow_user_delete(h)
    \/ \E token \in IssuedTokens(DB) \cup {NoToken}, username \in Usernames :
        get_profile(token, username)

SpecFollows == Init /\ [][NextFollows]_vars

\* the follows row from the caller of the request to the user it names
RequestedEdge == <<req.token.user_id, CHOOSE i \in DOMAIN users : users[i].username = req.username>>

\* C14 (as claimed): for an authenticated caller and a stored target,
\* FollowUser is answered 200 with following = true and leaves the edge
\* stored, and UnfollowUser is answered 200 with following = false and
\* leaves no such edge, whether or not the edge was stored before.
C14_FollowAnswersForcedFlag ==
    (/\ req.op \in {"follow_user", "unfollow_user"}
     /\ Authenticated
     /\ \E i \in DOMAIN users : users[i].username = req.username)
    => /\ resp.status = OK
       /\ resp.body.profile.username = req.username
       /\ resp.body.profile.following = (req.op = "follow_user")
       /\ BagIn(RequestedEdge, follows) = (req.op = "follow_user")

---------------------------------------------------------------------------
(* The feed, checked under SpecFeed *)

\* every window over a feed of up to MaxArticles articles
FeedWindows ==
    [limit : {None} \cup {Some(n) : n \in 0..MaxArticles},
     offset : {None} \cup {Some(n) : n \in 1..MaxArticles}]

NextFeed ==
    \/ \E user \in Accounts, salt \in OneSalt : registration(user, salt)
    \/ \E token \in IssuedTokens(DB), article \in {ArticleAb, ArticleCd} :
        create_article(token, article)
    \/ \E token \in IssuedTokens(DB), username \in Usernames : follow_user(token, username)
    \/ \E token \in IssuedTokens(DB), username \in Usernames : unfollow_user(token, username)
    \/ \E token \in IssuedTokens(DB), query \in FeedQueries : feed_articles(token, query)

SpecFeed == Init /\ [][NextFeed]_vars

\* the stored articles whose author the user follows
FollowedArticles(db, user_id) ==
    {a \in db.articles : BagIn(<<user_id, a.author_id>>, db.follows)}

\* the place of an article among a set of articles, newest first
PlaceNewestFirst(a, among) == 1 + Cardinality({b \in among : b.created_at > a.created_at})

\* the answer is the window of the articles, newest first
IsWindowOf(answer, among, limit, offset) ==
    /\ \A i \in DOMAIN answer :
        \E a \in among :
            /\ answer[i].id = a.id /\ answer[i].slug = a.slug /\ answer[i].title = a.title
            /\ PlaceNewestFirst(a, among) = offset + i
    /\ Len(answer) =
        Cardinality({a \in among : /\ PlaceNewestFirst(a, among) > offset
                                   /\ PlaceNewestFirst(a, among) <= offset + limit})

\* C16: for every user U and every window, FeedArticles answers the window
\* [offset, offset + limit) of the stored articles whose author U follows,
\* newest first, each with author.following = true; after a FollowUser of
\* an author by U every article of that author is in U's feed, and after an
\* UnfollowUser none is.
C16_FeedTracksFollows ==
    \A token \in IssuedTokens(DB) :
        /\ \A query \in FeedWindows :
            LET r == feed_articles_result(DB, token, query)
            IN  /\ r.resp.status = OK
                /\ r.db = DB
                /\ IsWindowOf(r.resp.body.articles, FollowedArticles(DB, token.user_id),
                              UnwrapOr(query.limit, DefaultLimit),
                              UnwrapOr(query.offset, DefaultOffset))
                /\ \A i \in DOMAIN r.resp.body.articles :
                    /\ r.resp.body.articles[i].author.following
                    /\ \E a \in articles :
                        /\ a.id = r.resp.body.articles[i].id
                        /\ a.author_id = r.resp.body.articles[i].author.id
        /\ \A username \in Usernames :
            LET by == {a \in articles : users[a.author_id].username = username}
                fed(db) == Range(feed_articles_result(db, token,
                                                      FeedArticlesQuery(None, None)).resp.body.articles)
                f == follow_user_result(DB, token, username)
                u == unfollow_user_result(DB, token, username)
            IN  /\ f.resp.status = OK => \A a \in by : \E x \in fed(f.db) : x.id = a.id
                /\ u.resp.status = OK => \A a \in by : \A x \in fed(u.db) : x.id # a.id

\* a feed was answered that shows one article while another stored article,
\* of an author the caller does not follow, is left out
C16_Witness ==
    /\ req.op = "feed_articles"
    /\ resp.status = OK
    /\ req.query = FeedArticlesQuery(None, None)
    /\ Len(resp.body.articles) = 1
    /\ \E a \in articles :
        /\ a.id # resp.body.articles[1].id
        /\ ~BagIn(<<req.token.user_id, a.author_id>>, follows)

---------------------------------------------------------------------------
(* The article list over stores of many articles, checked under SpecList. *)
(* ListArticles is a function of the store and the query: the stores are   *)
(* drawn as a run of registrations, CreateArticle and FavoriteArticle       *)
(* requests leaves them, with more articles than the default limit.        *)

MaxListed == 22

\* the title and slug of the n-th article: n letters
TitleOfLength(n) == [k \in 1..n |-> "a"]

\* the store after Alice and Bob registered and wrote n articles in turn,
\* every second one tagged "a", every third tagged "b", some favorited
ListedStore(n) ==
    [users |-> <<[id |-> 1, username |-> Alice, email |-> EmailA,
                  hash |-> hash_password(Pw1, "s1"), bio |-> None, image |-> None],
                 [id |-> 2, username |-> Bob, email |-> EmailB,
                  hash |-> hash_password(Pw1, "s1"), bio |-> None, image |-> None]>>,
     follows |-> EmptyBag,
     articles |-> {[id |-> i, slug |-> slugify(TitleOfLength(i)), title |-> TitleOfLength(i),
                    description |-> "d", body |-> "b", author_id |-> (i % 2) + 1,
                    created_at |-> i, updated_at |-> i] : i \in 1..n},
     tags |-> <<TagA, TagB>>,
     article_tags |-> {<<i, 1>> : i \in {j \in 1..n : j % 2 = 0}}
                      \cup {<<i, 2>> : i \in {j \in 1..n : j % 3 = 0}},
     comments |-> {},
     article_favs |-> {<<i, 2>> : i \in {j \in 1..n : j % 4 = 1}}
                      \cup {<<i, 1>> : i \in {j \in 1..n : j % 5 = 0}},
     serial |-> [article_id |-> n, comment_id |-> 0, now |-> n]]

InitListed ==
    \E n \in 0..MaxListed :
        /\ users = ListedStore(n).users
        /\ follows = ListedStore(n).follows
        /\ articles = ListedStore(n).articles
        /\ tags = ListedStore(n).tags
        /\ article_tags = ListedStore(n).article_tags
        /\ comments = ListedStore(n).comments
        /\ article_favs = ListedStore(n).article_favs
        /\ serial = ListedStore(n).serial
        /\ req = [op |-> "prepare_db", token |-> NoToken]
        /\ resp = Success(EmptyObject, 2)
        /\ inflight = EmptyBag
        /\ held = {}

\* the filters, each given or omitted
Filters == [tag : {None, Some(TagA)}, author : {None, Some(Alice)}, favorited : {None, Some(Bob)}]

\* windows at, below and beyond the default limit
Windows == [limit : {None, Some(0), Some(1), Some(21)}, offset : {None, Some(1), Some(20)}]

PageQueries ==
    {ListArticlesQuery(f.tag, f.author, f.favorited, w.limit, w.offset) :
        f \in Filters, w \in Windows}

\* GET /api/articles on a store of any size
list_articles_page(token, query) ==
    /\ req' = [op |-> "list_articles", token |-> token, query |-> query]
    /\ Commit(list_articles_result(DB, token, query))
    /\ held' = held
    /\ inflight' = inflight

NextList == \E query \in PageQueries : list_articles_page(NoToken, query)

SpecList == InitListed /\ [][NextList]_vars

\* the article satisfies every filter the query supplies
SatisfiesFilters(a, query) ==
    /\ query.author # None => users[a.author_id].username = query.author[1]
    /\ query.favorited # None =>
        \E u \in DOMAIN users :
            users[u].username = query.favorited[1] /\ <<a.id, u>> \in article_favs
    /\ query.tag # None =>
        \E t \in DOMAIN tags : tags[t] = query.tag[1] /\ <<a.id, t>> \in article_tags

\* C17: for every combination of the filters author, favorited and tag and
\* every window, ListArticles answers 200 with the window [offset, offset +
\* limit) of the stored articles that satisfy every supplied filter, newest
\* first, where an omitted limit is 20 and an omitted offset is 0; the
\* store is left as it was.
C17_ListFiltersAndOrder ==
    /\ \A token \in {NoToken, generate_jwt(1)}, query \in PageQueries :
        LET r == list_articles_result(DB, token, query)
        IN  /\ r.resp.status = OK
            /\ r.db = DB
            /\ IsWindowOf(r.resp.body.articles,
                          {a \in articles : SatisfiesFilters(a, query)},
                          IF query.limit = None THEN 20 ELSE query.limit[1],
                          IF query.offset = None THEN 0 ELSE query.offset[1])
    /\ req.op = "list_articles" =>
        IsWindowOf(resp.body.articles, {a \in articles : SatisfiesFilters(a, req.query)},
                   IF req.query.limit = None THEN 20 ELSE req.query.limit[1],
                   IF req.query.offset = None THEN 0 ELSE req.query.offset[1])

\* a list without limit and offset was answered with the 20 newest of more
\* than 20 stored articles, and a list with the tag filter with fewer
C17_Witness ==
    /\ req.op = "list_articles"
    /\ req.query.limit = None /\ req.query.offset = None
    /\ Cardinality(articles) > 20
    /\ \/ /\ req.query.tag = None /\ req.query.author = None /\ req.query.favorited = None
          /\ Len(resp.body.articles) = 20
          /\ resp.body.articles[1].id = Cardinality(articles)
       \/ /\ req.query.tag # None
          /\ Len(resp.body.articles) \in 1..19

---------------------------------------------------------------------------
(* What a viewer is shown, checked under SpecViewer *)

\* the viewers: no Authorization header, a header JWTToken::decode refuses,
\* and the stored users
Viewers(db) == NoTokens \cup IssuedTokens(db)

NextViewer ==
    \/ \E user \in Accounts, salt \in OneSalt : registration(user, salt)
    \/ \E token \in IssuedTokens(DB), username \in Usernames : follow_user(token, username)
    \/ \E token \in IssuedTokens(DB) : create_article(token, ArticleAb)
    \/ \E token \in IssuedTokens(DB) : favorite_article(token, SlugAb)
    \/ \E token \in IssuedTokens(DB) : add_comment(token, SlugAb, [body |-> "c"])
    \/ \E token \in IssuedTokens(DB) \cup {NoToken}, username \in Usernames :
        get_profile(token, username)
    \/ \E token \in IssuedTokens(DB) \cup {NoToken} : get_article(token, SlugAb)
    \/ \E token \in IssuedTokens(DB) \cup {NoToken} : list_articles(token, NoQuery)
    \/ \E token \in IssuedTokens(DB) \cup {NoToken} : get_comments(token, SlugAb)

SpecViewer == Init /\ [][NextViewer]_vars

\* the following flag of a profile as the viewer of the token must see it
FollowingAsStored(db, token, profile) ==
    profile.following = (token.cond = "ok" /\ BagIn(<<token.user_id, profile.id>>, db.follows))

\* an answer to no viewer carries no favorited flag that is true
FavoritedFalseIfAnonymous(token, article) == token.cond # "ok" => ~article.favorited

\* C18: to a request without viewer identity every following flag of
\* GetProfile and of the authors of the articles and comments answered by
\* GetArticle, ListArticles and GetComments is false, and so is every
\* favorited flag, whatever follows and article_favs hold; to an identified
\* viewer, following is true exactly when follows holds the row (viewer,
\* that user).
C18_AnonymousSeesFalseFlags ==
    \A token \in Viewers(DB) :
        /\ \A username \in Usernames :
            LET r == get_profile_result(DB, token, username)
            IN  r.resp.status = OK => FollowingAsStored(DB, token, r.resp.body.profile)
        /\ \A slug \in Slugs :
            LET r == get_article_result(DB, token, slug)
                c == get_comments_result(DB, token, slug)
            IN  /\ r.resp.status = OK =>
                    /\ FollowingAsStored(DB, token, r.resp.body.article.author)
                    /\ FavoritedFalseIfAnonymous(token, r.resp.body.article)
                /\ c.resp.status = OK
                /\ \A i \in DOMAIN c.resp.body.comments :
                    FollowingAsStored(DB, token, c.resp.body.comments[i].author)
        /\ \A query \in SomeQueries :
            LET r == list_articles_result(DB, token, query)
            IN  /\ r.resp.status = OK
                /\ \A i \in DOMAIN r.resp.body.articles :
                    /\ FollowingAsStored(DB, token, r.resp.body.articles[i].author)
                    /\ FavoritedFalseIfAnonymous(token, r.resp.body.articles[i])

\* an article was answered to no viewer with both flags false while its
\* author is followed and the article is favorited
C18_Witness ==
    /\ req.op = "get_article"
    /\ req.token = NoToken
    /\ resp.status = OK
    /\ ~resp.body.article.favorited
    /\ ~resp.body.article.author.following
    /\ \E f \in BagToSet(follows) : f[2] = resp.body.article.author.id
    /\ \E f \in article_favs : f[1] = resp.body.article.id

---------------------------------------------------------------------------
(* The tag list of the reads, checked under SpecTags *)

\* two articles whose tag lists are given out of order and with a repeat
ArticleAbUnordered == [ArticleAb EXCEPT !.tag_list = <<TagB, TagA, TagB>>]
ArticleCdTagged == [ArticleCd EXCEPT !.tag_list = <<TagA, TagA>>]

NextTags ==
    \/ \E user \in Accounts, salt \in OneSalt : registration(user, salt)
    \/ \E token \in IssuedTokens(DB) : follow_user(token, Alice)
    \/ \E token \in IssuedTokens(DB), article \in {ArticleAbUnordered, ArticleCdTagged} :
        create_article(token, article)
    \/ \E token \in IssuedTokens(DB), slug \in StoredSlugs : get_article(token, slug)
    \/ \E token \in IssuedTokens(DB) : list_articles(token, NoQuery)
    \/ \E token \in IssuedTokens(DB) : feed_articles(token, FeedArticlesQuery(None, None))
    \/ \E token \in IssuedTokens(DB) : update_article(token, SlugAb, NoChange)
    \/ \E token \in IssuedTokens(DB) : favorite_article(token, SlugAb)
    \/ \E token \in IssuedTokens(DB) : unfavorite_article(token, SlugAb)

SpecTags == Init /\ [][NextTags]_vars

\* strictly ascending: in lexicographic order and without a repeated name
IsAscending(names) == \A i \in 1..(Len(names) - 1) : TextLess(names[i], names[i + 1])

\* the tag list an article of SpecTags was created with, by its slug
GivenTags(slug) ==
    IF slug = SlugAb THEN ArticleAbUnordered.tag_list ELSE ArticleCdTagged.tag_list

\* the answered tag list is the names given at creation, ascending, once each
ReadsBackSorted(article) ==
    /\ IsAscending(article.tag_list)
    /\ Range(article.tag_list) = Range(GivenTags(article.slug))

ArticleReadsBackSorted(r) == r.resp.status = OK => ReadsBackSorted(r.resp.body.article)

ArticlesReadBackSorted(r) ==
    r.resp.status = OK =>
        \A i \in DOMAIN r.resp.body.articles : ReadsBackSorted(r.resp.body.articles[i])

\* C19: the tagList of every article answered by GetArticle, ListArticles,
\* FeedArticles, UpdateArticle, FavoriteArticle and UnfavoriteArticle is in
\* ascending lexicographic order of tag name with no repeated name and holds
\* the names given at creation, whatever their order and duplication there
\* and whatever the order of the tags rows.
C19_ReadPathTagListSorted ==
    \A token \in IssuedTokens(DB) \cup {NoToken} :
        /\ \A slug \in StoredSlugs :
            /\ ArticleReadsBackSorted(get_article_result(DB, token, slug))
            /\ \A article \in {NoChange, [NoChange EXCEPT !.title = Some(TitleaB)]} :
                ArticleReadsBackSorted(update_article_result(DB, token, slug, article))
            /\ ArticleReadsBackSorted(favorite_article_result(DB, token, slug))
            /\ ArticleReadsBackSorted(unfavorite_article_result(DB, token, slug))
        /\ \A query \in SomeQueries :
            ArticlesReadBackSorted(list_articles_result(DB, token, query))
        /\ \A query \in FeedQueries :
            ArticlesReadBackSorted(feed_articles_result(DB, token, query))

\* a read answered ["a","b"] for the article created with ["b","a","b"],
\* the tags rows being stored b first
C19_Witness ==
    /\ req.op \in {"get_article", "list_articles", "feed_articles", "update_article",
                   "favorite_article", "unfavorite_article"}
    /\ resp.status = OK
    /\ tags = <<TagB, TagA>>
    /\ \E a \in (IF req.op \in {"list_articles", "feed_articles"}
                 THEN Range(resp.body.articles) ELSE {resp.body.article}) :
        a.slug = SlugAb /\ a.tag_list = <<TagA, TagB>>

---------------------------------------------------------------------------
(* Sequences of UpdateArticle calls, checked under SpecEdit *)

\* updates that change the title, the body, or the title and the description
SomeEdits ==
    {[NoChange EXCEPT !.title = Some(TitleCd)],
     [NoChange EXCEPT !.body = Some("b2")],
     [NoChange EXCEPT !.title = Some(TitleaB), !.description = Some("d2")]}

NextEdit ==
    \/ \E user \in Accounts, salt \in OneSalt : registration(user, salt)
    \/ \E token \in IssuedTokens(DB), article \in {ArticleAbTagged, ArticleCd} :
        create_article(token, article)
    \/ \E token \in IssuedTokens(DB), slug \in StoredSlugs, article \in SomeEdits :
        update_article(token, slug, article)
    \/ \E slug \in StoredSlugs : get_article(NoToken, slug)

SpecEdit == Init /\ [][NextEdit]_vars

\* the names of the tags linked to an article
LinkedTags(db, article_id) ==
    {db.tags[x[2]] : x \in {y \in db.article_tags : y[1] = article_id}}

\* C20: over any sequence of UpdateArticle calls, title changes included,
\* every stored article keeps its slug, author, creation time and set of
\* linked tags from one state to the next (so they are those CreateArticle
\* stored) and is still found under that slug; an UpdateArticle that is
\* answered 200 sets the fields it names on the article it names, leaves the
\* fields it omits as they were and leaves every other article as it was.
C20_UpdateChangesOnlyText ==
    [][/\ \A a \in articles :
            /\ \E b \in articles' :
                /\ b.id = a.id
                /\ b.slug = a.slug
                /\ b.author_id = a.author_id
                /\ b.created_at = a.created_at
                /\ (req'.op = "update_article" /\ resp'.status = OK /\ a.slug = req'.slug) =>
                    /\ b.title = COALESCE(req'.article.title, a.title)
                    /\ b.description = COALESCE(req'.article.description, a.description)
                    /\ b.body = COALESCE(req'.article.body, a.body)
                /\ ~(req'.op = "update_article" /\ resp'.status = OK /\ a.slug = req'.slug) =>
                    b = a
            /\ LinkedTags(DB', a.id) = LinkedTags(DB, a.id)
            /\ get_article_by_slug(DB', a.slug, None).ok
            /\ get_article_by_slug(DB', a.slug, None).article.id = a.id
       /\ req'.op = "update_article" =>
            /\ Cardinality(articles') = Cardinality(articles)
            /\ tags' = tags
            /\ article_tags' = article_tags]_vars

\* after its title was changed twice, the article created as "Ab" with tags
\* is stored under its first slug, which is no longer the slug of its title
C20_Witness ==
    /\ req.op = "update_article"
    /\ req.article.title = Some(TitleCd)
    /\ resp.status = OK
    /\ \E a \in articles :
        /\ a.slug = SlugAb
        /\ a.title = TitleCd
        /\ a.description = "d2"
        /\ slugify(a.title) # a.slug
        /\ LinkedTags(DB, a.id) = {TagA, TagB}
        /\ resp.body.article.slug = SlugAb

---------------------------------------------------------------------------
(* Slugs, checked under SpecArticles *)

\* creations whose titles differ and slugify alike, with and without tags
CollidingArticles ==
    {ArticleAb, ArticleAbTagged, [ArticleAbTagged EXCEPT !.title = TitleaB], ArticleCd}

\* C21: no two stored articles share a slug; a CreateArticle whose title
\* slugifies to the slug of a stored article is answered with the store error
\* (500, unique violation) and leaves the whole store as it was: no article,
\* no tag and no tag link is added, and GetArticle by that slug answers what
\* it answered before, the first article.
C21_SlugsUnique ==
    /\ \A a, b \in articles : a.slug = b.slug => a = b
    /\ \A token \in IssuedTokens(DB), article \in CollidingArticles :
        LET r == create_article_result(DB, token, article)
            slug == slugify(article.title)
        IN  (\E a \in articles : a.slug = slug) =>
                /\ r.resp = into_response(UniqueViolation("articles_slug_key"), 1)
                /\ r.resp.status = INTERNAL_SERVER_ERROR
                /\ r.db = DB
                /\ get_article_result(r.db, NoToken, slug) = get_article_result(DB, NoToken, slug)
                /\ get_article_result(DB, NoToken, slug).resp.status = OK
    /\ (req.op = "create_article" /\ resp.status = OK) =>
            Cardinality({a \in articles : a.slug = slugify(req.article.title)}) = 1

\* a second CreateArticle with the title of another user's stored article
\* was answered 500 and the first article is still the one stored
C21_Witness ==
    /\ req.op = "create_article"
    /\ resp = into_response(UniqueViolation("articles_slug_key"), 1)
    /\ \E a \in articles :
        /\ a.slug = slugify(req.article.title)
        /\ a.author_id # req.token.user_id
        /\ get_article_result(DB, NoToken, a.slug).resp.body.article.id = a.id

---------------------------------------------------------------------------
(* Operations on a missing article, checked under SpecArticles *)

\* the answer is a not-found error: status 404
IsNotFound(r) == r.resp.status = 404

\* C22 (as claimed): GetArticle, FavoriteArticle, UnfavoriteArticle and
\* AddComment called with a slug that matches no stored article are answered
\* with a not-found (404) error and leave the store as it was: no favorite
\* and no comment is created.
C22_MissingArticleNotFound ==
    \A token \in IssuedTokens(DB), slug \in Slugs :
        (\A a \in articles : a.slug # slug) =>
            /\ IsNotFound(get_article_result(DB, token, slug))
            /\ get_article_result(DB, token, slug).db = DB
            /\ IsNotFound(favorite_article_result(DB, token, slug))
            /\ favorite_article_result(DB, token, slug).db = DB
            /\ IsNotFound(unfavorite_article_result(DB, token, slug))
            /\ unfavorite_article_result(DB, token, slug).db = DB
            /\ IsNotFound(add_comment_result(DB, token, slug, [body |-> "c"]))
            /\ add_comment_result(DB, token, slug, [body |-> "c"]).db = DB

---------------------------------------------------------------------------
(* auth.rs with the clock: what a token carries and when it verifies.
   Times are in minutes. *)

\* Duration::from_days(30)
ValidForDays == 30

from_days(days) == days * 24 * 60

\* key.verify_token(token, None): no VerificationOptions are given, so the
\* library's default time tolerance applies, 15 minutes
TimeTolerance == 15

\* Claims::with_custom_claims(CustomClaim { user_id }, Duration::from_days(30))
\* signed at time now
sign(user_id, now) ==
    [user_id |-> user_id, issued_at |-> now, expires_at |-> now + from_days(ValidForDays)]

\* key.verify_token(token, None) at time now, for a token the key signed:
\* the custom claims, or TokenHasExpired once now is past expires_at by more
\* than the tolerance
key_verify_token(claims, now) ==
    IF now - TimeTolerance <= claims.expires_at
    THEN [ok |-> TRUE, user_id |-> claims.user_id]
    ELSE [ok |-> FALSE, err |-> JwtError("TokenHasExpired")]

\* how many minutes around issuance and around expiry are examined
MaxAround == 20

\* the ages at which an issued token is presented: just after issuance, every
\* tenth day, and the minutes around the expiry
Ages ==
    (0..MaxAround) \cup {from_days(d) : d \in {10, 20}}
    \cup ((from_days(ValidForDays) - MaxAround)..(from_days(ValidForDays) + MaxAround))

IssueTimes == {0, 7}

\* a login or registration of user_id at time now, whose token will be
\* presented age minutes later
InitClock ==
    /\ users = EmptyDB.users
    /\ follows = EmptyDB.follows
    /\ articles = EmptyDB.articles
    /\ tags = EmptyDB.tags
    /\ article_tags = EmptyDB.article_tags
    /\ comments = EmptyDB.comments
    /\ article_favs = EmptyDB.article_favs
    /\ serial = EmptyDB.serial
    /\ inflight = EmptyBag
    /\ held = {}
    /\ resp = Success(EmptyObject, 0)
    /\ req \in [op : {"login", "registration"}, user_id : 1..MaxUsers,
                now : IssueTimes, age : Ages]

\* user_auth.token = Some(auth::generate_jwt(user_auth.id, &key)?)
issue_token ==
    /\ req.op \in {"login", "registration"}
    /\ req' = [req EXCEPT !.op = "issued"]
    /\ resp' = Success([user |-> [id |-> req.user_id, token |-> sign(req.user_id, req.now)]], 1)
    /\ UNCHANGED <<store, inflight, held>>

\* verify_token(&token.0, &key) of a request that presents the issued token
present_token ==
    /\ req.op = "issued"
    /\ LET token == resp.body.user.token
           now == req.now + req.age
           v == key_verify_token(token, now)
       IN  /\ req' = [op |-> "verify_token", token |-> token, now |-> now]
           /\ resp' = IF v.ok THEN Success([user_id |-> v.user_id], 0)
                      ELSE into_response(v.err, 0)
    /\ UNCHANGED <<store, inflight, held>>

NextClock == issue_token \/ present_token

SpecClock == InitClock /\ [][NextClock]_vars

\* C23 (as claimed): a token issued by Register or Login for user u verifies
\* to u's id at every time strictly before 30 days after issuance, and its
\* verification fails with an authentication error (401) at any time after
\* that.
C23_TokenLifetime ==
    req.op = "verify_token" =>
        /\ req.now < req.token.issued_at + 30 * 24 * 60 =>
            /\ resp.status = OK
            /\ resp.body.user_id = req.token.user_id
        /\ req.now > req.token.issued_at + 30 * 24 * 60 =>
            resp.status = UNAUTHORIZED

---------------------------------------------------------------------------
(* get_tags, checked under SpecTagCloud *)

\* COUNT(article_tags.tag_id) of the group of tag id
tag_count(db, id) == Cardinality({x \in db.article_tags : x[2] = id})

\* ORDER BY COUNT(article_tags.tag_id) DESC over a set of tag ids; SQL leaves
\* the order of equal counts to the scan, which ran by ascending or by
\* descending id
RECURSIVE order_by_count_desc(_, _, _)
order_by_count_desc(db, ids, scan) ==
    IF ids = {} THEN << >>
    ELSE LET first(i) == \A j \in ids \ {i} :
                            \/ tag_count(db, i) > tag_count(db, j)
                            \/ /\ tag_count(db, i) = tag_count(db, j)
                               /\ IF scan = "asc" THEN i < j ELSE i > j
             m == CHOOSE i \in ids : first(i)
         IN  <<m>> \o order_by_count_desc(db, ids \ {m}, scan)

\* LIMIT 10
TagsLimit == 10

\* get_tags with LEFT JOIN in place of INNER JOIN article_tags: tags that no
\* article is linked to are listed too
get_tags_left_join(db, scan) ==
    LET page == limit_offset(order_by_count_desc(db, DOMAIN db.tags, scan), TagsLimit, 0)
    IN  Done(db, [tags |-> [k \in DOMAIN page |-> db.tags[page[k]]]], 1)

\* get_tags: SELECT tags.name FROM tags INNER JOIN article_tags ... GROUP BY
\* tags.name ORDER BY COUNT(article_tags.tag_id) DESC LIMIT 10
get_tags_result(db, scan) ==
    LET joined == {i \in DOMAIN db.tags : \E x \in db.article_tags : x[2] = i}
        page == limit_offset(order_by_count_desc(db, joined, scan), TagsLimit, 0)
    IN  Done(db, [tags |-> [k \in DOMAIN page |-> db.tags[page[k]]]], 1)

\* GET /api/tags
get_tags(scan) ==
    /\ req' = [op |-> "get_tags", token |-> NoToken, scan |-> scan]
    /\ Commit(get_tags_result(DB, scan))
    /\ held' = held
    /\ inflight' = inflight

\* how many tags a store holds
MaxTags == 14

\* the store after Alice wrote m articles that named n tags between them:
\* tag i is named by the first (i + shift) % 3 + 1 articles, and every fourth
\* tag only by an article since deleted
TaggedStore(n, m, shift) ==
    [users |-> <<[id |-> 1, username |-> Alice, email |-> EmailA,
                  hash |-> hash_password(Pw1, "s1"), bio |-> None, image |-> None]>>,
     follows |-> EmptyBag,
     articles |-> {[id |-> i, slug |-> slugify(TitleOfLength(i)), title |-> TitleOfLength(i),
                    description |-> "d", body |-> "b", author_id |-> 1,
                    created_at |-> i, updated_at |-> i] : i \in 1..m},
     tags |-> [i \in 1..n |-> TitleOfLength(i)],
     article_tags |-> {<<a, i>> : a \in 1..m, i \in 1..n} \cap
                      {x \in (1..3) \X (1..n) : x[2] % 4 # 0 /\ x[1] <= ((x[2] + shift) % 3) + 1},
     comments |-> {},
     article_favs |-> {},
     serial |-> [article_id |-> m + 1, comment_id |-> 0, now |-> m + 1]]

InitTagCloud ==
    \E n \in 0..MaxTags, m \in 0..3, shift \in 0..2 :
        /\ users = TaggedStore(n, m, shift).users
        /\ follows = TaggedStore(n, m, shift).follows
        /\ articles = TaggedStore(n, m, shift).articles
        /\ tags = TaggedStore(n, m, shift).tags
        /\ article_tags = TaggedStore(n, m, shift).article_tags
        /\ comments = TaggedStore(n, m, shift).comments
        /\ article_favs = TaggedStore(n, m, shift).article_favs
        /\ serial = TaggedStore(n, m, shift).serial
        /\ req = [op |-> "prepare_db", token |-> NoToken]
        /\ resp = Success(EmptyObject, 2)
        /\ inflight = EmptyBag
        /\ held = {}

NextTagCloud == \E scan \in {"asc", "desc"} : get_tags(scan)

SpecTagCloud == InitTagCloud /\ [][NextTagCloud]_vars

\* the number of stored articles linked to the tag of this name
LinkedArticles(db, name) ==
    Cardinality({a \in db.articles :
                    \E i \in DOMAIN db.tags : db.tags[i] = name /\ <<a.id, i>> \in db.article_tags})

\* C24: for every store, ListTags answers at most 10 tag names, each linked
\* to at least one stored article, in non-increasing order of the number of
\* articles linked to the tag, and no tag left out of the answer has strictly
\* more linked articles than a tag in it.
C24_ListTagsMostUsed ==
    \A scan \in {"asc", "desc"} :
        LET r == get_tags_result(DB, scan)
            names == r.resp.body.tags
        IN  /\ r.resp.status = OK
            /\ r.db = DB
            /\ Len(names) <= 10
            /\ \A k \in DOMAIN names : LinkedArticles(DB, names[k]) >= 1
            /\ \A k \in DOMAIN names : \A l \in DOMAIN names :
                k < l => LinkedArticles(DB, names[k]) >= LinkedArticles(DB, names[l])
            /\ \A name \in Range(tags) \ Range(names) : \A k \in DOMAIN names :
                LinkedArticles(DB, name) <= LinkedArticles(DB, names[k])

\* ListTags answered 10 names of a store that links more than 10 tags, and
\* holds a tag that no article is linked to
C24_Witness ==
    /\ req.op = "get_tags"
    /\ resp.status = OK
    /\ Len(resp.body.tags) = 10
    /\ Cardinality({i \in DOMAIN tags : \E x \in article_tags : x[2] = i}) > 10
    /\ \E i \in DOMAIN tags : \A x \in article_tags : x[2] # i
    /\ \E k \in DOMAIN resp.body.tags : \E l \in DOMAIN resp.body.tags :
        LinkedArticles(DB, resp.body.tags[k]) > LinkedArticles(DB, resp.body.tags[l])

---------------------------------------------------------------------------
(* create_article statement by statement, checked under SpecCreate.  Each of
   its three statements acquires its own connection and no transaction spans
   them, so other requests run between them and a failure of one statement
   ends the handler with the earlier ones done. *)

\* the first statement as a transaction would leave it: the row is not in
\* the store until the last statement is done
insert_article_uncommitted(db, token, article) ==
    LET r == create_article_result(db, token, article)
    IN  IF r.resp.status # OK THEN r
        ELSE [resp |-> [r.resp EXCEPT !.body.article.tag_list = << >>, !.stmts = 1], db |-> db]

\* create_article up to the answer of its first statement (validate,
\* verify_token, slugify, INSERT INTO articles ... RETURNING with
\* '{}' AS tag_list)
insert_article(db, token, article) ==
    LET errs == CreateArticleData_validate(article)
        v == verify_token(token)
        row == [id |-> db.serial.article_id + 1, slug |-> slugify(article.title),
                title |-> article.title, description |-> article.description,
                body |-> article.body, author_id |-> v.user_id,
                created_at |-> db.serial.now + 1, updated_at |-> db.serial.now + 1]
        conflict == articles_conflict(db, row)
        author == CHOOSE u \in author_of(db, row.author_id) : TRUE
        db1 == [db EXCEPT !.articles = @ \cup {row},
                          !.serial.article_id = @ + 1, !.serial.now = @ + 1]
    IN  IF decode(token) = None THEN Rejected(db)
        ELSE IF errs # {} THEN Failed(db, ValidationError(errs), 0)
        ELSE IF ~v.ok THEN Failed(db, v.err, 0)
        ELSE IF conflict # None THEN Failed(db, conflict, 1)
        ELSE Done(db1, [article |-> Article(row, << >>, FALSE, 0,
                            UserProfile(author, BagIn(<<v.user_id, author.id>>, db.follows)))], 1)

\* the second statement: INSERT INTO tags ... ON CONFLICT DO NOTHING
insert_article_tags(db, names) == [db EXCEPT !.tags = insert_tags(@, names)]

\* the third statement, INSERT INTO article_tags ..., then
\* article.tag_list = tags and the answer
link_article_tags(db, answer, names) ==
    Done([db EXCEPT !.article_tags = link_tags(db, answer.id, names)],
         [article |-> [answer EXCEPT !.tag_list = names]], 3)

\* a statement that the store did not carry out (no connection, a store
\* failure): `?` ends the handler with the error
StoreUnavailable == SqlxError("error communicating with database")

\* POST /api/articles up to its first statement; a request that has stored
\* its row goes on in inflight
create_article_insert(token, article) ==
    LET r == insert_article(DB, token, article)
    IN  IF r.resp.status = OK
        THEN /\ WithinBounds(r.db)
             /\ BagCardinality(inflight) < MaxInflight
             /\ users' = r.db.users /\ follows' = r.db.follows /\ articles' = r.db.articles
             /\ tags' = r.db.tags /\ article_tags' = r.db.article_tags
             /\ comments' = r.db.comments /\ article_favs' = r.db.article_favs
             /\ serial' = r.db.serial
             /\ held' = held
             /\ inflight' = inflight (+) SetToBag({[op |-> "create_article", token |-> token,
                                                     article |-> article,
                                                     answer |-> r.resp.body.article,
                                                     stmts |-> 1]})
             /\ UNCHANGED <<req, resp>>
        ELSE Handle([op |-> "create_article", token |-> token, article |-> article], r)

\* the second statement of a create_article in flight
create_article_tags(h) ==
    /\ h.op = "create_article"
    /\ h.stmts = 1
    /\ users' = users /\ follows' = follows /\ articles' = articles
    /\ tags' = insert_article_tags(DB, h.article.tag_list).tags
    /\ article_tags' = article_tags /\ comments' = comments
    /\ article_favs' = article_favs /\ serial' = serial
    /\ held' = held
    /\ inflight' = (inflight (-) SetToBag({h})) (+) SetToBag({[h EXCEPT !.stmts = 2]})
    /\ UNCHANGED <<req, resp>>

\* the third statement of a create_article in flight, and its answer
create_article_links(h) ==
    /\ h.op = "create_article"
    /\ h.stmts = 2
    /\ req' = [op |-> h.op, token |-> h.token, article |-> h.article]
    /\ Commit(link_article_tags(DB, h.answer, h.article.tag_list))
    /\ held' = held
    /\ inflight' = inflight (-) SetToBag({h})

\* the second or third statement of a create_article in flight fails
create_article_fails(h) ==
    /\ h.op = "create_article"
    /\ req' = [op |-> h.op, token |-> h.token, article |-> h.article]
    /\ Commit(Failed(DB, StoreUnavailable, h.stmts + 1))
    /\ held' = held
    /\ inflight' = inflight (-) SetToBag({h})

NextCreate ==
    \/ \E user \in Accounts, salt \in OneSalt : registration(user, salt)
    \/ \E token \in IssuedTokens(DB), article \in {ArticleAbTagged, ArticleCd} :
        create_article_insert(token, article)
    \/ \E h \in BagToSet(inflight) : create_article_tags(h)
    \/ \E h \in BagToSet(inflight) : create_article_links(h)
    \/ \E h \in BagToSet(inflight) : create_article_fails(h)
    \/ \E slug \in StoredSlugs : get_article(NoToken, slug)
    \/ list_articles(NoToken, NoQuery)

SpecCreate == Init /\ [][NextCreate]_vars

\* the three statements run one after the other
CreateArticleInOneGo(db, token, article) ==
    LET first == insert_article(db, token, article)
    IN  IF first.resp.status # OK THEN first
        ELSE link_article_tags(insert_article_tags(first.db, article.tag_list),
                               first.resp.body.article, article.tag_list)

\* C25: CreateArticle is three store statements with no transaction around
\* them.  While a CreateArticle has stored its row and not yet linked its
\* tags, the article is in the store with no tag linked and GetArticle and
\* ListArticles answer it with an empty tagList; when a later statement
\* fails (or the process stops there) the article stays stored.  Run without
\* interruption the three statements give what CreateArticle gives.
C25_CreateArticleNotAtomic ==
    /\ \A h \in BagToSet(inflight) :
        h.op = "create_article" =>
            LET got == get_article_result(DB, NoToken, h.answer.slug)
                listed == list_articles_result(DB, NoToken, NoQuery).resp.body.articles
            IN  /\ \E a \in articles : a.id = h.answer.id /\ a.slug = h.answer.slug
                /\ LinkedTags(DB, h.answer.id) = {}
                /\ got.resp.status = OK
                /\ got.resp.body.article.tag_list = << >>
                /\ \E k \in DOMAIN listed :
                    listed[k].slug = h.answer.slug /\ listed[k].tag_list = << >>
    /\ (req.op = "create_article" /\ resp = into_response(StoreUnavailable, resp.stmts)) =>
            \E a \in articles : a.slug = slugify(req.article.title)
    /\ \A token \in IssuedTokens(DB), article \in {ArticleAbTagged, ArticleCd, ArticleBlank} :
        CreateArticleInOneGo(DB, token, article) = create_article_result(DB, token, article)

\* GetArticle answered an empty tagList for an article whose CreateArticle,
\* which named tags, has stored its row and not yet linked them
C25_Witness ==
    /\ req.op = "get_article"
    /\ resp.status = OK
    /\ resp.body.article.tag_list = << >>
    /\ \E h \in BagToSet(inflight) :
        /\ h.op = "create_article"
        /\ h.answer.id = resp.body.article.id
        /\ h.article.tag_list # << >>

---------------------------------------------------------------------------
(* favorite_article and unfavorite_article statement by statement, checked
   under SpecFavRace: each runs its INSERT or DELETE and then, on another
   connection, get_article_by_slug *)

\* favorite_article up to its INSERT INTO article_favs
insert_article_fav(db, token, slug) ==
    LET v == verify_token(token)
        rows == {<<a.id, v.user_id>> : a \in {x \in db.articles : x.slug = slug}}
        conflict == article_favs_conflict(db, rows)
    IN  IF decode(token) = None THEN Rejected(db)
        ELSE IF ~v.ok THEN Failed(db, v.err, 0)
        ELSE IF conflict # None THEN Failed(db, conflict, 1)
        ELSE Done([db EXCEPT !.article_favs = @ \cup rows], EmptyObject, 1)

\* unfavorite_article up to its DELETE FROM article_favs
delete_article_fav(db, token, slug) ==
    LET v == verify_token(token)
        rows == {<<a.id, v.user_id>> : a \in {x \in db.articles : x.slug = slug}}
    IN  IF decode(token) = None THEN Rejected(db)
        ELSE IF ~v.ok THEN Failed(db, v.err, 0)
        ELSE Done([db EXCEPT !.article_favs = @ \ rows], EmptyObject, 1)

\* get_article_by_slug(&pool, &slug, Some(user_id)) and the answer
read_article_fav(db, token, slug) ==
    LET a == get_article_by_slug(db, slug, Some(verify_token(token).user_id))
    IN  IF ~a.ok THEN Failed(db, a.err, 2) ELSE Done(db, [article |-> a.article], 2)

\* the first statement of POST or DELETE /api/articles/:slug/favorite; a
\* request whose statement was carried out goes on in inflight
article_fav_write(op, token, slug) ==
    LET r == IF op = "favorite_article" THEN insert_article_fav(DB, token, slug)
             ELSE delete_article_fav(DB, token, slug)
    IN  IF r.resp.status = OK
        THEN /\ BagCardinality(inflight) < MaxInflight
             /\ article_favs' = r.db.article_favs
             /\ held' = held
             /\ inflight' = inflight (+) SetToBag({[op |-> op, token |-> token, slug |-> slug]})
             /\ UNCHANGED <<users, follows, articles, tags, article_tags, comments, serial,
                            req, resp>>
        ELSE Handle([op |-> op, token |-> token, slug |-> slug], r)

favorite_article_insert(token, slug) == article_fav_write("favorite_article", token, slug)

unfavorite_article_delete(token, slug) == article_fav_write("unfavorite_article", token, slug)

\* the read of a favorite_article or unfavorite_article in flight, and its
\* answer
article_fav_read(h) ==
    /\ h.op \in {"favorite_article", "unfavorite_article"}
    /\ req' = h
    /\ Commit(read_article_fav(DB, h.token, h.slug))
    /\ held' = held
    /\ inflight' = inflight (-) SetToBag({h})

NextFavRace ==
    \/ \E user \in Accounts, salt \in OneSalt : registration(user, salt)
    \/ \E article \in {ArticleAb, ArticleCd} : create_article(generate_jwt(1), article)
    \/ \E token \in IssuedTokens(DB) : favorite_article_insert(token, SlugAb)
    \/ \E token \in IssuedTokens(DB) : unfavorite_article_delete(token, SlugAb)
    \/ \E h \in BagToSet(inflight) : article_fav_read(h)
    \/ get_article(NoToken, SlugAb)
    \/ list_articles(NoToken, NoQuery)

SpecFavRace == Init /\ [][NextFavRace]_vars

\* the Favorite rows stored for an article
LiveCount(db, article_id) == Cardinality({f \in db.article_favs : f[1] = article_id})

\* every article of the answer carries the count of the rows stored for it
AnswersLiveCount(db, r) ==
    r.resp.status = OK =>
        IF "articles" \in DOMAIN r.resp.body
        THEN \A k \in DOMAIN r.resp.body.articles :
                r.resp.body.articles[k].favorites_count = LiveCount(db, r.resp.body.articles[k].id)
        ELSE r.resp.body.article.favorites_count = LiveCount(db, r.resp.body.article.id)

\* what C26 says of each state: the reads and the two writes applied to it
LiveCountInEveryState ==
    /\ \A token \in IssuedTokens(DB) \cup {NoToken}, slug \in StoredSlugs :
        /\ AnswersLiveCount(DB, get_article_result(DB, token, slug))
        /\ AnswersLiveCount(DB, list_articles_result(DB, token, NoQuery))
    /\ \A token \in IssuedTokens(DB), slug \in StoredSlugs :
        LET own == {<<a.id, token.user_id>> : a \in {x \in articles : x.slug = slug}}
            ins == insert_article_fav(DB, token, slug)
            del == delete_article_fav(DB, token, slug)
        IN  /\ AnswersLiveCount(DB, read_article_fav(DB, token, slug))
            /\ ins.resp.status = OK =>
                /\ [ins.db EXCEPT !.article_favs = article_favs] = DB
                /\ ins.db.article_favs = article_favs \cup own
                /\ read_article_fav(ins.db, token, slug) = favorite_article_result(DB, token, slug)
            /\ ins.resp.status # OK => ins = favorite_article_result(DB, token, slug)
            /\ del.resp.status = OK
            /\ [del.db EXCEPT !.article_favs = article_favs] = DB
            /\ del.db.article_favs = article_favs \ own
            /\ read_article_fav(del.db, token, slug) = unfavorite_article_result(DB, token, slug)

\* C26: in every reachable state, other FavoriteArticle and UnfavoriteArticle
\* requests being between their two statements or not, every read (GetArticle,
\* ListArticles, the read that ends FavoriteArticle and UnfavoriteArticle)
\* answers, in the step that reads, as favoritesCount the number of Favorite
\* rows stored for the article when it reads; a favorite's INSERT adds its own row and removes
\* none, an unfavorite's DELETE removes its own row and no other, so
\* simultaneous favorites by distinct users both take effect.
C26_FavoritesCountIsLive ==
    [][/\ LiveCountInEveryState
       /\ (/\ req'.op \in {"favorite_article", "unfavorite_article", "get_article",
                           "list_articles"}
           /\ BagCardinality(inflight') <= BagCardinality(inflight)) =>
            AnswersLiveCount(DB', [resp |-> resp'])]_vars

\* a FavoriteArticle was answered favoritesCount 2 while another user's
\* FavoriteArticle of the same article is between its INSERT and its read
C26_Witness ==
    /\ req.op = "favorite_article"
    /\ resp.status = OK
    /\ resp.body.article.favorites_count = 2
    /\ \E h \in BagToSet(inflight) :
        /\ h.op = "favorite_article"
        /\ h.slug = req.slug
        /\ h.token # req.token

---------------------------------------------------------------------------
(* What comments and articles refer to, checked under SpecRefs.  add_comment,
   delete_article and delete_comment are one statement each, so their
   interleavings are their sequences. *)

\* a token the key signed whose user id has no users row
GhostToken == generate_jwt(MaxUsers + 1)

NextRefs ==
    \/ \E user \in Accounts, salt \in OneSalt : registration(user, salt)
    \/ \E token \in IssuedTokens(DB) \cup {GhostToken}, article \in {ArticleAb, ArticleCd} :
        create_article(token, article)
    \/ \E token \in IssuedTokens(DB) \cup {GhostToken}, slug \in StoredSlugs :
        add_comment(token, slug, [body |-> "c"])
    \/ \E token \in IssuedTokens(DB) \cup {GhostToken}, slug \in StoredSlugs :
        delete_article(token, slug)
    \/ \E token \in IssuedTokens(DB), slug \in StoredSlugs, id \in 1..MaxComments :
        delete_comment(token, slug, id)

SpecRefs == Init /\ [][NextRefs]_vars

\* every comment has one stored article and a stored author, every article a
\* stored author
ReferencesHold(db) ==
    /\ \A c \in db.comments :
        /\ Cardinality({a \in db.articles : a.id = c.article_id}) = 1
        /\ c.author_id \in DOMAIN db.users
    /\ \A a \in db.articles : a.author_id \in DOMAIN db.users

---------------------------------------------------------------------------
(* POST /api/initialize and the tokens issued before it, checked under
   SpecReset *)

\* initialize_db: down.sql drops the tables, schema.sql creates them anew,
\* their SERIAL counters with them
initialize_result(db) ==
    Done([EmptyDB EXCEPT !.serial.now = db.serial.now], [message |-> "ok"], 2)

\* POST /api/initialize: no Authorization header is read
initialize ==
    Handle([op |-> "initialize", token |-> NoToken], initialize_result(DB))

HeldTokens == {h.token : h \in held}

NextReset ==
    \/ \E user \in Accounts, salt \in OneSalt : registration(user, salt)
    \/ \E user \in {[email |-> a.email, password |-> a.password] : a \in Accounts} : login(user)
    \/ initialize
    \/ \E token \in HeldTokens : get_current_user(token)
    \/ \E token \in HeldTokens, username \in Usernames : follow_user(token, username)

SpecReset == Init /\ [][NextReset]_vars

\* C28 (as claimed): over every sequence of the router's operations, the
\* reset by POST /api/initialize and later registrations included, a token
\* that verifies is accepted only as the user it was issued for: whenever a
\* token a client holds authenticates, it authenticates the account of the
\* username it was issued for.
C28_TokenAuthenticatesItsAccount ==
    \A h \in held :
        LET r == get_current_user_result(DB, h.token)
        IN  r.resp.status = OK => r.resp.body.user.username = h.username

---------------------------------------------------------------------------
(* The endpoints whose Authorization header is optional, checked under
   SpecOptional *)

\* well-formed "Token <jwt>" headers whose token fails verification
FailingTokens == {Token(1, "expired"), Token(1, "badsig")}

NextOptional ==
    \/ \E user \in Accounts, salt \in OneSalt : registration(user, salt)
    \/ \E token \in IssuedTokens(DB) : create_article(token, ArticleAb)
    \/ \E token \in IssuedTokens(DB) : add_comment(token, SlugAb, [body |-> "c"])
    \/ \E token \in FailingTokens \cup {NoToken}, username \in Usernames :
        get_profile(token, username)
    \/ \E token \in FailingTokens \cup {NoToken} : list_articles(token, NoQuery)
    \/ \E token \in FailingTokens \cup {NoToken} : get_article(token, SlugAb)
    \/ \E token \in FailingTokens \cup {NoToken} : get_comments(token, SlugAb)

SpecOptional == Init /\ [][NextOptional]_vars

\* the answer is the authentication error of the token and nothing else, and
\* the store is as it was
IsAuthenticationError(r, token) ==
    /\ r.resp = into_response(verify_token(token).err, 0)
    /\ r.resp.status = UNAUTHORIZED
    /\ DOMAIN r.resp.body = {"error"}
    /\ r.db = DB

---------------------------------------------------------------------------
(* Changing the password and logging in again, checked under SpecPassword *)

\* the passwords a client sends: the one of the registration, a new one of
\* eight characters, a new one of two characters and the empty string
Passwords == {Pw1, Pw2, PwShort, << >>}

\* updates that provide a new password, alone or beside a new email, and
\* updates that omit it
PasswordUpdates ==
    {[NoUpdate EXCEPT !.password = Some(p)] : p \in Passwords \ {Pw1}}
    \cup {NoUpdate,
          [NoUpdate EXCEPT !.bio = Some("bio")],
          [NoUpdate EXCEPT !.email = Some(EmailB), !.password = Some(Pw2)]}

NextPassword ==
    \/ \E user \in Accounts, salt \in OneSalt : registration(user, salt)
    \/ \E token \in IssuedTokens(DB), data \in PasswordUpdates, salt \in NewSalt :
        update_user(token, data, salt)
    \/ \E u \in Range(users), password \in Passwords :
        login([email |-> u.email, password |-> password])

SpecPassword == Init /\ [][NextPassword]_vars

\* Login with the user's email and this password succeeds
LoginSucceeds(db, id, password) ==
    LET r == login_result(db, [email |-> db.users[id].email, password |-> password])
    IN  r.resp.status = OK /\ r.resp.body.user.username = db.users[id].username

\* Login with the user's email and this password fails with the generic
\* invalid-credentials error
LoginFailsGeneric(db, id, password) ==
    login_result(db, [email |-> db.users[id].email, password |-> password]).resp
        = into_response(InvalidLogin, 1)

\* what a successful UpdateUser of user id with this data does to Login,
\* for the new passwords in P2s
PasswordChangeTakesEffect(db, id, data, P2s) ==
    LET r == update_user_result(db, generate_jwt(id), data, "s2")
    IN  \A P1 \in Passwords :
            (LoginSucceeds(db, id, P1) /\ r.resp.status = OK) =>
                /\ (data.password # None /\ data.password[1] \in P2s
                    /\ data.password[1] # P1) =>
                        /\ LoginSucceeds(r.db, id, data.password[1])
                        /\ LoginFailsGeneric(r.db, id, P1)
                /\ data.password = None => LoginSucceeds(r.db, id, P1)

\* C30: after a successful UpdateUser that provides a new password P2 for a
\* user whose password is P1 (P1 # P2), Login with that user's email and P2
\* succeeds and Login with P1 fails with the generic invalid-credentials
\* error; after an UpdateUser that omits the password, Login with P1 still
\* succeeds.
C30_PasswordChangeTakesEffect ==
    \A id \in DOMAIN users, data \in PasswordUpdates :
        PasswordChangeTakesEffect(DB, id, data, Passwords)

\* the same for the new passwords that LoginUser::validate lets through
PasswordChangeOfNonBlankPassword ==
    \A id \in DOMAIN users, data \in PasswordUpdates :
        PasswordChangeTakesEffect(DB, id, data, {p \in Passwords : Len(p) >= MinBlank})

\* a Login with the password an UpdateUser stored was answered 200
LoginWithNewPassword ==
    /\ req.op = "login"
    /\ req.user.password = Pw2
    /\ resp.status = OK
    /\ \E u \in Range(users) : u.email = req.user.email /\ u.hash.salt = "s2"

\* a Login with the empty password an UpdateUser stored was refused by
\* LoginUser::validate
LoginWithBlankPasswordRefused ==
    /\ req.op = "login"
    /\ req.user.password = << >>
    /\ resp.status = UNPROCESSABLE_ENTITY
    /\ \E u \in Range(users) :
        u.email = req.user.email /\ verify_password(u.hash, << >>)

====
